---- MODULE Spec2Model ----
(***************************************************************************)
(* A model of WooriDB's authentication controllers                         *)
(* (woori-db/src/auth/controllers.rs) and query controllers                *)
(* (woori-db/src/controllers/query.rs).                                    *)
(*                                                                         *)
(* Uuids are natural numbers handed out by a counter (Uuid::new_v4 is      *)
(* taken to be fresh).  Texts are tagged tuples: <<"plain", s>> is a text  *)
(* a client typed, <<"bcrypt", x, cost>> is the bcrypt hash of x, and      *)
(* <<"uuid", n>> is the text of a uuid.  Time is a natural number of       *)
(* seconds; the UTC day of t is t \div SecondsPerDay.                      *)
(***************************************************************************)
EXTENDS Integers, Sequences, FiniteSets, TLC

VARIABLES
    usersLog,       \* data/users_info.log: a sequence of user records
    sessions,       \* SessionContext: token -> SessionInfo
    nextUuid,       \* the next value Uuid::new_v4() returns
    now,            \* Utc::now()
    issued,         \* history: token -> what put_user_session issued it with
    resp,           \* the last handler that ran and the response it returned
    local_data,     \* LocalContext: entity -> id -> (DataRegister, state)
    encryption,     \* EncryptContext: entity -> the keys stored hashed
    dayLogs,        \* the day-logs data/*.log: the registers in append order
    stateLock,      \* the Mutex around local_data: "free", "held", "poisoned"
    pending,        \* the transaction that holds the lock, or NoTx
    encryptLock,    \* the Mutex around encryption: "free" or "poisoned"
    sessionLock,    \* the Mutex around sessions: "free" or "poisoned"
    reading,        \* the read that has cloned its data and not yet
                    \* answered, or NoRead
    lhs,            \* a Types value: self of to_hash, partial_cmp and hash
    rhs,            \* a Types value: other of partial_cmp
    idValue         \* an ID: self of ID::to_string

authVars == <<usersLog, sessions, nextUuid, issued, sessionLock>>
queryVars == <<local_data, encryption, dayLogs, stateLock, pending,
               encryptLock, reading>>
vars == <<usersLog, sessions, nextUuid, now, issued, resp,
          local_data, encryption, dayLogs, stateLock, pending,
          encryptLock, sessionLock, reading, lhs, rhs, idValue>>
typesVars == <<lhs, rhs, idValue>>

----------------------------------------------------------------------------
(* Bounds of the model *)

MaxTime == 3
MaxUuid == 3

\* session_ttl_seconds, the configured expiration_time
ExpirationTime == 2
\* the configured bcrypt cost of the admin (admin.cost())
AdminCost == 14
\* bcrypt::hash(.., 4) of put_user_session_controller
TokenCost == 4

----------------------------------------------------------------------------
(* Values *)

\* a text as a client types it
Plain(s) == <<"plain", s>>
IsPlain(v) == v[1] = "plain"
\* a bcrypt hash of x
Bcrypt(x, cost) == <<"bcrypt", x, cost>>
IsBcrypt(v) == v[1] = "bcrypt"
\* Uuid::to_string
UuidString(u) == <<"uuid", u>>

AdminId == "your_admin"
AdminPassword == Plain("your_password")
\* a password holding a NUL byte, which bcrypt refuses to hash
NulPassword == Plain("my\\0password")

AdminIds == {AdminId, "other_admin"}
AdminPasswords == {AdminPassword, Plain("nice_password")}
UserPasswords == {Plain("my_password"), Plain("another_pswd"), NulPassword}
Roles == {"User", "Read"}
RoleSets == {{"User"}, {"User", "Read"}}
\* the uuids of the model: Uuid::new_v4() returns 1, 2, .. and never 0
Uuids == 0..MaxUuid

Ok(v) == [ok |-> TRUE, val |-> v]
Err(e) == [ok |-> FALSE, err |-> e]
Error(e) == [kind |-> "Error", error |-> e]

\* bcrypt::hash(password, cost): fails on a NUL byte or a cost outside 4..31
BcryptHash(password, cost) ==
    IF password = NulPassword \/ cost \notin 4..31
    THEN Err("bcrypt")
    ELSE Ok(Bcrypt(password, cost))

\* bcrypt::verify(password, hash)
BcryptVerify(password, hash) == IsBcrypt(hash) /\ hash[2] = password

\* AdminInfo: the admin id and the hash of the admin password, set at startup
AdminInfo == [admin_id |-> AdminId,
              admin_hash |-> Bcrypt(AdminPassword, AdminCost),
              cost |-> AdminCost]

\* AdminInfo::is_valid_hash(pswd, id)
is_valid_hash(admin, pswd, id) ==
    id = admin.admin_id /\ BcryptVerify(pswd, admin.admin_hash)

----------------------------------------------------------------------------
(* The users log (auth/io.rs) *)

\* io::to_users_log(&user): appends one record
to_users_log(log, user) == Append(log, user)

\* io::remove_users_from_log(&ids): drops the records of the listed ids
remove_users_from_log(log, ids) ==
    SelectSeq(log, LAMBDA u : \A k \in 1..Len(ids) : ids[k] # u.id)

\* io::find_user(user): the first record of the id
find_user(log, id) ==
    LET hits == {k \in 1..Len(log) : log[k].id = id}
    IN IF hits = {} THEN Err("Unknown")
       ELSE Ok(log[CHOOSE k \in hits : \A j \in hits : k <= j])

\* User::new(id, hash, roles)
User_new(id, hash, roles) == [id |-> id, hash |-> hash, roles |-> roles]

\* the ids the users log holds
LogIds(log) == {log[k].id : k \in 1..Len(log)}

----------------------------------------------------------------------------
(* Request bodies *)

\* a body that does not deserialize
BadBody == [ok |-> FALSE]

\* the admin credentials a request may carry: right, wrong password, wrong id
AdminCredentials ==
    {<<id, pw>> : id \in AdminIds, pw \in AdminPasswords}
        \ {<<"other_admin", Plain("nice_password")>>}

\* users_ids: no id, one id, or two ids (which may repeat)
UuidLists == {<<>>} \cup {<<a>> : a \in Uuids} \cup {<<a, b>> : a \in Uuids, b \in Uuids}

\* bodies that do not deserialize although they carry admin credentials
BadBodiesWithAdmin ==
    {[ok |-> FALSE, admin_id |-> c[1], admin_password |-> c[2]] : c \in AdminCredentials}

\* CreateUserWithAdmin
CreateUserBodies ==
    {BadBody} \cup BadBodiesWithAdmin \cup
    {[ok |-> TRUE, admin_id |-> c[1], admin_password |-> c[2], user_info |-> u] :
        c \in AdminCredentials,
        u \in [user_password : UserPasswords, role : RoleSets]}

\* DeleteUsersWithAdmin
DeleteUsersBodies ==
    {BadBody} \cup BadBodiesWithAdmin \cup
    {[ok |-> TRUE, admin_id |-> c[1], admin_password |-> c[2], users_ids |-> ids] :
        c \in AdminCredentials, ids \in UuidLists}

\* schemas::User
SessionBodies ==
    {BadBody} \cup [ok : {TRUE}, id : Uuids, user_password : UserPasswords]

----------------------------------------------------------------------------
(* auth/controllers.rs *)

\* a variant that stores the password as it came
NewUserHashPlain(password, cost) == Ok(password)
\* hash(&cred.user_info.user_password, admin.cost())
NewUserHash(password, cost) == BcryptHash(password, cost)

\* a variant that lets every caller in
CreateUserGateOpen(body, admin) == TRUE
\* admin.is_valid_hash(&cred.admin_password, &cred.admin_id)
CreateUserGate(body, admin) ==
    is_valid_hash(admin, body.admin_password, body.admin_id)

\* a variant of create_user_controller that looks at the admin credentials
\* of the body before it looks at the rest
create_user_credentials_first(body, admin, new_user_id, io_ok, log) ==
    IF "admin_id" \in DOMAIN body /\ ~CreateUserGate(body, admin)
    THEN [result |-> Error("AuthenticationBadRequest"), log |-> log, drawn |-> 0]
    ELSE IF ~body.ok
    THEN [result |-> Error("AuthenticationBadRequestBody"), log |-> log, drawn |-> 0]
    ELSE LET new_user_hash == NewUserHash(body.user_info.user_password, admin.cost)
         IN IF new_user_hash.ok /\ io_ok
            THEN [result |-> [kind |-> "UserId", user_id |-> new_user_id],
                  log |-> to_users_log(log, User_new(new_user_id, new_user_hash.val,
                                                     body.user_info.role)),
                  drawn |-> 1]
            ELSE [result |-> Error("FailedToCreateUser"), log |-> log, drawn |-> 1]

\* create_user_controller: the result, the users log afterwards and the
\* number of uuids drawn
create_user_controller(body, admin, new_user_id, io_ok, log) ==
    IF body.ok
    THEN IF CreateUserGate(body, admin)
         THEN LET new_user_hash == NewUserHash(body.user_info.user_password, admin.cost)
              IN IF new_user_hash.ok
                 THEN LET user == User_new(new_user_id, new_user_hash.val,
                                           body.user_info.role)
                      IN IF io_ok
                         THEN [result |-> [kind |-> "UserId", user_id |-> new_user_id],
                               log |-> to_users_log(log, user), drawn |-> 1]
                         ELSE [result |-> Error("FailedToCreateUser"),
                               log |-> log, drawn |-> 1]
                 ELSE [result |-> Error("FailedToCreateUser"), log |-> log, drawn |-> 1]
         ELSE [result |-> Error("AuthenticationBadRequest"), log |-> log, drawn |-> 0]
    ELSE [result |-> Error("AuthenticationBadRequestBody"), log |-> log, drawn |-> 0]

\* a variant that leaves the users log as it is
DeleteUsersKeepLog(log, ids) == log
\* io::remove_users_from_log(&cred.users_ids) as delete_users_controller calls it
DeleteUsersRemove(log, ids) == remove_users_from_log(log, ids)

\* delete_users_controller: the result and the users log afterwards
delete_users_controller(body, admin, io_ok, log) ==
    IF body.ok
    THEN IF is_valid_hash(admin, body.admin_password, body.admin_id)
         THEN IF io_ok
              THEN [result |-> [kind |-> "Uuids", ids |-> body.users_ids],
                    log |-> DeleteUsersRemove(log, body.users_ids)]
              ELSE [result |-> Error("FailedToDeleteUsers"), log |-> log]
         ELSE [result |-> Error("AuthenticationBadRequest"), log |-> log]
    ELSE [result |-> Error("AuthenticationBadRequestBody"), log |-> log]

\* SessionInfo::new(expiration, roles)
SessionInfo_new(expiration, roles) == [expiration |-> expiration, roles |-> roles]

\* a variant that forgets the time to live
SessionExpirationNoTtl(t, exp_time) == t
\* Utc::now() + chrono::Duration::seconds(exp_time)
SessionExpiration(t, exp_time) == t + exp_time

\* a variant that grants every role
SessionRolesFromBody(body, roles) == Roles
\* the roles of reg.context(), which the session is created with
SessionRoles(body, roles) == roles

\* a variant that accepts every password
SessionPasswordAny(password, hash) == TRUE
\* bcrypt::verify(&(user.user_password), &hash): Err(_) | Ok(false) => ()
SessionPasswordOk(password, hash) == BcryptVerify(password, hash)

\* a variant of SessionInsert that starts the table over
SessionReplace(sess, token, info) == [t \in {token} |-> info]
\* session.insert(token, info)
SessionInsert(sess, token, info) ==
    [t \in DOMAIN sess \cup {token} |-> IF t = token THEN info ELSE sess[t]]

\* Mutex::lock() fails when the lock is poisoned
LockFails(lock) == lock = "poisoned"

\* put_user_session_controller: the result, the session table afterwards and
\* the number of uuids drawn.  When session_context.lock() fails the
\* `if let Ok(..)` is skipped and the handler falls through to Error::Unknown.
put_user_session_controller(body, log, sess, session_lock, t, exp_time, uuid) ==
    IF body.ok
    THEN LET user_registry == find_user(log, body.id)
             failed == [result |-> Error("Unknown"), sessions |-> sess, drawn |-> 0]
         IN IF user_registry.ok
            THEN LET hash == user_registry.val.hash
                     roles == user_registry.val.roles
                 IN IF SessionPasswordOk(body.user_password, hash)
                          /\ ~LockFails(session_lock)
                    THEN LET hashed == BcryptHash(UuidString(uuid), TokenCost)
                             token == IF hashed.ok THEN hashed.val
                                      ELSE UuidString(uuid + 1)
                             expiration == SessionExpiration(t, exp_time)
                             info == SessionInfo_new(expiration, SessionRoles(body, roles))
                         IN [result |-> [kind |-> "Token", token |-> token],
                             sessions |-> SessionInsert(sess, token, info),
                             drawn |-> IF hashed.ok THEN 1 ELSE 2]
                    ELSE failed
            ELSE failed
    ELSE [result |-> Error("AuthenticationBadRequestBody"), sessions |-> sess, drawn |-> 0]

----------------------------------------------------------------------------
(* The bearer-token check in front of the transaction and query endpoints *)

\* SessionInfo::is_valid_date and is_valid_role
authorize(sess, token, role, t) ==
    /\ token \in DOMAIN sess
    /\ sess[token].expiration > t
    /\ role \in sess[token].roles

\* an entry found past its expiry is dropped
purge(sess, token, t) ==
    IF token \in DOMAIN sess /\ ~(sess[token].expiration > t)
    THEN [x \in DOMAIN sess \ {token} |-> sess[x]]
    ELSE sess

\* a bearer token that was never issued
BogusToken == Bcrypt(UuidString(0), TokenCost)

----------------------------------------------------------------------------
(* Values of the query language (wql/src/lib.rs) *)

MaxId == 2
SecondsPerDay == 2
\* bcrypt::DEFAULT_COST
DefaultCost == 12

\* Option: Some(v) and None
Some(v) == [some |-> TRUE, val |-> v]
None == [some |-> FALSE]

\* an f64: a number, held as its sign and its magnitude in halves (so that
\* 0.0 and -0.0 differ), or NaN
FNum(sign, halves) == <<"num", sign, halves>>
NaN == <<"nan", 1, 0>>
FloatVal(f) == f[2] * f[3]
\* a > b and a == b of f64: false when either is NaN
FloatGt(a, b) == a[1] = "num" /\ b[1] = "num" /\ FloatVal(a) > FloatVal(b)
FloatEq(a, b) == a[1] = "num" /\ b[1] = "num" /\ FloatVal(a) = FloatVal(b)
\* i as f64
AsFloat(i) == IF i < 0 THEN FNum(-1, 2 * (0 - i)) ELSE FNum(1, 2 * i)
\* logic::integer_decode(f): (mantissa, exponent, sign) of the bits of f
integer_decode(f) == <<f[1], f[3], f[2]>>

\* the variants of Types
Char(c) == <<"Char", c>>
Integer(i) == <<"Integer", i>>
String(s) == <<"String", s>>
Uuid(u) == <<"Uuid", u>>
Float(f) == <<"Float", f>>
Boolean(b) == <<"Boolean", b>>
Vector(v) == <<"Vector", v>>
Map(m) == <<"Map", m>>
Hash(s) == <<"Hash", s>>
Precise(s) == <<"Precise", s>>
DateTime(t) == <<"DateTime", t>>
Nil == <<"Nil">>

\* the variant of a value
Variant(v) == v[1]

\* a text holding a NUL byte
NulText == "my\\0password"

\* the Types values of the model; the members of a Vector and of a Map are
\* Integers
TypeValues ==
    {Char("a"), Char("b"),
     Integer(-1), Integer(1), Integer(2),
     String(""), String("a"), String("b"), String(NulText),
     Uuid(1), Uuid(2),
     Float(FNum(1, 0)), Float(FNum(-1, 0)), Float(FNum(1, 2)), Float(FNum(1, 3)),
     Float(FNum(-1, 2)), Float(NaN),
     Boolean(FALSE), Boolean(TRUE),
     Vector(<<>>), Vector(<<Integer(1)>>), Vector(<<Integer(2)>>),
     Vector(<<Integer(1), Integer(2)>>),
     Map([a |-> Integer(1)]), Map([a |-> Integer(1), b |-> Integer(2)]),
     Hash(Bcrypt(Plain("a"), DefaultCost)),
     Precise("1.0"), Precise("2.5"),
     DateTime(0), DateTime(1),
     Nil}

\* the cost a caller of to_hash gives: none, one below the range of bcrypt,
\* the lowest of the range
Costs == {None, Some(3), Some(4)}

\* PartialEq of Types (derived): the f64 of a Float is compared as f64, the
\* other variants by their content
types_eq(a, b) ==
    IF Variant(a) = "Float" /\ Variant(b) = "Float"
    THEN FloatEq(a[2], b[2])
    ELSE a = b

\* Types::is_hash
is_hash(v) == v[1] = "Hash"

\* the text to_hash hashes
HashedText(v) ==
    CASE Variant(v) \in {"Char", "String", "Precise"} -> v[2]
      [] Variant(v) = "Float" -> ToString(integer_decode(v[2]))
      [] OTHER -> ToString(v[2])

\* a variant of to_hash that answers with the value it was given
to_hash_unhashed(v, cost) ==
    IF v[1] = "Hash" THEN Err("Hash cannot be hashed")
    ELSE IF v[1] = "Nil" THEN Err("Nil cannot be hashed")
    ELSE Ok(v)

\* Types::to_hash(cost): a Hash and Nil cannot be hashed; the other values
\* are hashed from their text, at the cost given or at DEFAULT_COST
to_hash(v, cost) ==
    IF v[1] = "Hash" THEN Err("Hash cannot be hashed")
    ELSE IF v[1] = "Nil" THEN Err("Nil cannot be hashed")
    ELSE LET h == BcryptHash(Plain(HashedText(v)),
                             IF cost.some THEN cost.val ELSE DefaultCost)
         IN IF h.ok THEN Ok(Hash(h.val)) ELSE Err("bcrypt")

\* Ordering of a.cmp(b) on integers
CmpInt(a, b) == IF a < b THEN "Less" ELSE IF a = b THEN "Equal" ELSE "Greater"

\* the chars and the texts of the model in their order (code points, bytes)
CharOrder == <<"a", "b">>
TextOrder == <<"", "1.0", "2.5", "a", "b", NulText>>
IndexOf(seq, x) == CHOOSE k \in 1..Len(seq) : seq[k] = x
CmpIn(seq, a, b) == CmpInt(IndexOf(seq, a), IndexOf(seq, b))
\* false < true
CmpBool(a, b) == CmpInt(IF a THEN 1 ELSE 0, IF b THEN 1 ELSE 0)

\* if a > b { Greater } else { Less }
GreaterOrLess(a, b) == IF FloatGt(a, b) THEN "Greater" ELSE "Less"

\* a variant of partial_cmp whose String | Precise arm takes a String with
\* a Precise
partial_cmp_texts(a, b) ==
    LET va == Variant(a)
        vb == Variant(b)
    IN CASE va = "Integer" /\ vb = "Integer" -> Some(CmpInt(a[2], b[2]))
         [] va = "Float" /\ vb = "Float" -> Some(GreaterOrLess(a[2], b[2]))
         [] va = "Integer" /\ vb = "Float" -> Some(GreaterOrLess(AsFloat(a[2]), b[2]))
         [] va = "Float" /\ vb = "Integer" -> Some(GreaterOrLess(a[2], AsFloat(b[2])))
         [] va = "Char" /\ vb = "Char" -> Some(CmpIn(CharOrder, a[2], b[2]))
         [] va \in {"String", "Precise"} /\ vb \in {"String", "Precise"} ->
               Some(CmpIn(TextOrder, a[2], b[2]))
         [] va = "Uuid" /\ vb = "Uuid" -> Some(CmpInt(a[2], b[2]))
         [] va = "Boolean" /\ vb = "Boolean" -> Some(CmpBool(a[2], b[2]))
         [] va = "Vector" /\ vb = "Vector" -> Some(CmpInt(Len(a[2]), Len(b[2])))
         [] OTHER -> None

\* impl PartialOrd for Types: partial_cmp(self, other)
partial_cmp(a, b) ==
    LET va == Variant(a)
        vb == Variant(b)
    IN CASE va = "Integer" /\ vb = "Integer" -> Some(CmpInt(a[2], b[2]))
         [] va = "Float" /\ vb = "Float" -> Some(GreaterOrLess(a[2], b[2]))
         [] va = "Integer" /\ vb = "Float" -> Some(GreaterOrLess(AsFloat(a[2]), b[2]))
         [] va = "Float" /\ vb = "Integer" -> Some(GreaterOrLess(a[2], AsFloat(b[2])))
         [] va = "Char" /\ vb = "Char" -> Some(CmpIn(CharOrder, a[2], b[2]))
         [] (va = "String" /\ vb = "String") \/ (va = "Precise" /\ vb = "Precise") ->
               Some(CmpIn(TextOrder, a[2], b[2]))
         [] va = "Uuid" /\ vb = "Uuid" -> Some(CmpInt(a[2], b[2]))
         [] va = "Boolean" /\ vb = "Boolean" -> Some(CmpBool(a[2], b[2]))
         [] va = "Vector" /\ vb = "Vector" -> Some(CmpInt(Len(a[2]), Len(b[2])))
         [] OTHER -> None

\* the orders in which a HashMap may yield its keys: any
RECURSIVE KeyOrders(_)
KeyOrders(keys) ==
    IF keys = {} THEN {<<>>}
    ELSE UNION {{<<k>> \o rest : rest \in KeyOrders(keys \ {k})} : k \in keys}

\* the orders in which the Map of a value may be iterated
IterOrders(v) == IF Variant(v) = "Map" THEN KeyOrders(DOMAIN v[2]) ELSE {<<>>}

\* what the hash of a value that is no Vector and no Map writes to the
\* hasher
FeedScalar(v) ==
    CASE Variant(v) = "Float" -> <<<<"decoded", integer_decode(v[2])>>>>
      [] Variant(v) \in {"String", "Hash", "Precise"} -> <<<<"str", v[2]>>>>
      [] Variant(v) = "Nil" -> <<<<"str", "">>>>
      [] OTHER -> <<<<Variant(v), v[2]>>>>

\* the writes of the members of a Vector, one after the other
RECURSIVE FeedAll(_)
FeedAll(members) ==
    IF Len(members) = 0 THEN <<>>
    ELSE FeedScalar(Head(members)) \o FeedAll(Tail(members))

\* the writes of the entries of a Map in the order iter: key, then value
RECURSIVE FeedEntries(_, _)
FeedEntries(m, iter) ==
    IF Len(iter) = 0 THEN <<>>
    ELSE <<<<"str", Head(iter)>>>> \o FeedScalar(m[Head(iter)])
            \o FeedEntries(m, Tail(iter))

\* impl Hash for Types: what hash(self, state) writes to the hasher, when
\* the HashMap of a Map yields its entries in the order iter
hash(v, iter) ==
    CASE Variant(v) = "Vector" -> <<<<"len", Len(v[2])>>>> \o FeedAll(v[2])
      [] Variant(v) = "Map" -> FeedEntries(v[2], iter)
      [] OTHER -> FeedScalar(v)

----------------------------------------------------------------------------
(* The ids of the query language (wql/src/lib.rs): ID *)

\* usize::MAX, and the number of hex digits of a uuid: the decimal text of
\* usize::MAX is shorter than a uuid without hyphens (20 digits against 32)
MaxUsize == 11
UuidDigits == 4

\* ID::Uuid, ID::Number, ID::String; a uuid is its hex digits in lower case
IdUuid(u) == <<"Uuid", u>>
IdNumber(n) == <<"Number", n>>
IdString(s) == <<"String", s>>

DigitChars == {"0", "1", "2", "3", "4", "5", "6", "7", "8", "9"}
HexChars == DigitChars \cup {"a", "b", "c", "d", "e", "f"}
AllIn(chars, set) == \A k \in 1..Len(chars) : chars[k] \in set

\* Uuid::parse_str(s): the simple form (the hex digits) or the hyphenated
\* form (here one hyphen in the middle)
Uuid_parse_str(s) ==
    LET half == UuidDigits \div 2
    IN IF Len(s) = UuidDigits /\ AllIn(s, HexChars) THEN Ok(s)
       ELSE IF /\ Len(s) = UuidDigits + 1
               /\ s[half + 1] = "-"
               /\ AllIn(SubSeq(s, 1, half) \o SubSeq(s, half + 2, Len(s)), HexChars)
            THEN Ok(SubSeq(s, 1, half) \o SubSeq(s, half + 2, Len(s)))
       ELSE Err("uuid")

\* Uuid::to_string(): the hyphenated form
Uuid_to_string(u) ==
    SubSeq(u, 1, UuidDigits \div 2) \o <<"-">> \o SubSeq(u, UuidDigits \div 2 + 1, Len(u))

\* the value of decimal digits, checked against usize::MAX at every digit
RECURSIVE DecimalValue(_, _)
DecimalValue(digits, acc) ==
    IF Len(digits) = 0 THEN Ok(acc)
    ELSE LET d == CHOOSE n \in 0..9 : ToString(n) = Head(digits)
         IN IF acc * 10 + d > MaxUsize THEN Err("overflow")
            ELSE DecimalValue(Tail(digits), acc * 10 + d)

\* s.parse::<usize>(): decimal digits after an optional plus sign
parse_usize(s) ==
    LET digits == IF Len(s) > 0 /\ Head(s) = "+" THEN Tail(s) ELSE s
    IN IF Len(digits) = 0 \/ ~AllIn(digits, DigitChars) THEN Err("usize")
       ELSE DecimalValue(digits, 0)

\* num.to_string()
RECURSIVE usize_to_string(_)
usize_to_string(n) ==
    IF n < 10 THEN <<ToString(n)>>
    ELSE Append(usize_to_string(n \div 10), ToString(n % 10))

\* ID::to_string
ID_to_string(id) ==
    CASE id[1] = "Number" -> usize_to_string(id[2])
      [] id[1] = "String" -> id[2]
      [] id[1] = "Uuid" -> Uuid_to_string(id[2])

\* a variant of ID::from_str that does not try the text as a uuid
ID_from_str_no_uuid(s) ==
    IF parse_usize(s).ok THEN Ok(IdNumber(parse_usize(s).val))
    ELSE IF Len(s) = 0 THEN Err("Entity cannot be empty in EVICT")
    ELSE Ok(IdString(s))

\* ID::from_str
ID_from_str(s) ==
    IF Uuid_parse_str(s).ok THEN Ok(IdUuid(Uuid_parse_str(s).val))
    ELSE IF parse_usize(s).ok THEN Ok(IdNumber(parse_usize(s).val))
    ELSE IF Len(s) = 0 THEN Err("Entity cannot be empty in EVICT")
    ELSE Ok(IdString(s))

\* the texts of the model, up to the length of a hyphenated uuid
TextChars == {"0", "1", "a", "-", "+"}
RECURSIVE TextsOfLen(_)
TextsOfLen(n) ==
    IF n = 0 THEN {<<>>}
    ELSE {Append(t, c) : t \in TextsOfLen(n - 1), c \in TextChars}
Texts == UNION {TextsOfLen(n) : n \in 0..(UuidDigits + 1)}

\* the ids of the model
IdValues ==
    {IdUuid(u) : u \in {t \in TextsOfLen(UuidDigits) : AllIn(t, HexChars)}}
        \cup {IdNumber(n) : n \in 0..MaxUsize}
        \cup {IdString(t) : t \in Texts}

EntityName == "e1"
Ids == 1..MaxId
Keys == {"a", "b"}
\* the map literals of INSERT and UPDATE SET
Contents == {[a |-> Integer(1)], [a |-> Integer(2), b |-> Integer(1)]}
\* the ENCRYPT lists of CREATE ENTITY
EncryptLists == {{}, {"b"}}

\* HashMap::new()
EmptyMap == <<>>

\* the entries of m at the keys ks
Restrict(m, ks) == [k \in DOMAIN m \cap ks |-> m[k]]
\* m without the key k
Without(m, k) == [j \in DOMAIN m \ {k} |-> m[j]]
\* m with k bound to v
With(m, k, v) == [j \in DOMAIN m \cup {k} |-> IF j = k THEN v ELSE m[j]]

----------------------------------------------------------------------------
(* Dates and the day-logs *)

\* the UTC day of a time
DayOf(t) == t \div SecondsPerDay

\* date.format("data/%Y_%m_%d.log"): the name keeps the day and drops the
\* time of day
DateLog(t) == <<"data", DayOf(t)>>

\* a date as a query writes it; InvalidDate is a text that is no date
ValidDate(t) == [valid |-> TRUE, t |-> t]
InvalidDate == [valid |-> FALSE]
Dates == {ValidDate(t) : t \in 0..MaxTime} \cup {InvalidDate}

\* a variant of ParseDate that reads a text that is no date as the epoch
ParseDateOrEpoch(date) == IF date.valid THEN Ok(date.t) ELSE Ok(0)
\* date.parse::<DateTime<Utc>>().map_err(Error::DateTimeParse)
ParseDate(date) == IF date.valid THEN Ok(date.t) ELSE Err("DateTimeParse")

\* a Register, one line of a day-log, with the state after the mutation
Register(t, entity, id, op, state) ==
    [timestamp |-> t, entity_name |-> entity, entity_id |-> id,
     op |-> op, state |-> state]

\* DataRegister: where the line of a register is
DataRegister(file_name, offset) == [file_name |-> file_name, offset |-> offset]

\* the lines of the day-log file_name, in order
read_date_log(lines, file_name) ==
    SelectSeq(lines, LAMBDA r : DateLog(r.timestamp) = file_name)

\* the lines of one entity id
LinesOf(lines, entity, id) ==
    SelectSeq(lines, LAMBDA r : r.entity_name = entity /\ r.entity_id = id)

\* folding the lines of one entity id: the state after the last of them
FoldLines(lines) ==
    IF Len(lines) = 0 THEN EmptyMap ELSE lines[Len(lines)].state

----------------------------------------------------------------------------
(* The transaction executor *)

NoTx == [kind |-> "NoTx"]
CreateEntityTx(entity, encrypts) ==
    [kind |-> "CreateEntity", entity |-> entity, encrypts |-> encrypts]
InsertTx(entity, content, id) ==
    [kind |-> "Insert", entity |-> entity, content |-> content, id |-> id]
UpdateSetTx(entity, content, id) ==
    [kind |-> "UpdateSet", entity |-> entity, content |-> content, id |-> id]
DeleteTx(entity, id) == [kind |-> "Delete", entity |-> entity, id |-> id]
EvictTx(entity, id) == [kind |-> "Evict", entity |-> entity, id |-> id]

Transactions ==
    {CreateEntityTx(EntityName, ks) : ks \in EncryptLists}
        \cup {InsertTx(EntityName, c, i) : c \in Contents, i \in Ids}
        \cup {UpdateSetTx(EntityName, c, i) : c \in Contents, i \in Ids}
        \cup {DeleteTx(EntityName, i) : i \in Ids}
        \cup {EvictTx(EntityName, None)}

\* the transactions that write a register
WritesRegister(tx) == tx.kind \in {"Insert", "UpdateSet", "Delete"}

HasEntity(store, entity) == entity \in DOMAIN store
HasId(store, entity, id) == HasEntity(store, entity) /\ id \in DOMAIN store[entity]

\* the transactions that lock the encrypted-keys map: to register the keys
\* of an entity, or to hash the values of a map literal
UsesEncryption(tx) == tx.kind \in {"CreateEntity", "Insert", "UpdateSet"}

\* the preconditions the executor revalidates under the lock
TxValid(tx, store) ==
    CASE tx.kind = "CreateEntity" -> ~HasEntity(store, tx.entity)
      [] tx.kind = "Insert" -> HasEntity(store, tx.entity) /\ ~HasId(store, tx.entity, tx.id)
      [] tx.kind = "UpdateSet" -> HasId(store, tx.entity, tx.id)
      [] tx.kind = "Delete" -> HasId(store, tx.entity, tx.id)
      [] tx.kind = "Evict" -> IF tx.id.some THEN HasId(store, tx.entity, tx.id.val)
                                             ELSE HasEntity(store, tx.entity)

\* the declared keys of a map literal are stored hashed
EncryptContent(content, encrypts) ==
    [k \in DOMAIN content |->
        IF k \in encrypts THEN to_hash(content[k], None).val ELSE content[k]]

\* the given keys replace those of the state, the others are preserved
MergeSet(state, content) ==
    [k \in DOMAIN state \cup DOMAIN content |->
        IF k \in DOMAIN content THEN content[k] ELSE state[k]]

\* the state after a transaction that writes a register
StateAfter(tx, store, encrypts) ==
    CASE tx.kind = "Insert" -> EncryptContent(tx.content, encrypts[tx.entity])
      [] tx.kind = "UpdateSet" ->
            MergeSet(store[tx.entity][tx.id].state,
                     EncryptContent(tx.content, encrypts[tx.entity]))
      [] tx.kind = "Delete" -> EmptyMap

\* append-and-flush: the register of tx, stamped t, at the end of its day-log
AppendRegister(lines, tx, store, encrypts, t) ==
    IF WritesRegister(tx)
    THEN Append(lines, Register(t, tx.entity, tx.id, tx.kind,
                                StateAfter(tx, store, encrypts)))
    ELSE lines

\* swap state: the store after tx, whose register is the last line
ApplyTx(tx, store, lines) ==
    LET r == lines[Len(lines)]
        entry == [register |-> DataRegister(DateLog(r.timestamp), Len(lines)),
                  state |-> r.state]
    IN CASE tx.kind = "CreateEntity" -> With(store, tx.entity, EmptyMap)
         [] tx.kind \in {"Insert", "UpdateSet"} ->
               With(store, tx.entity, With(store[tx.entity], tx.id, entry))
         [] tx.kind = "Delete" ->
               With(store, tx.entity, Without(store[tx.entity], tx.id))
         [] tx.kind = "Evict" ->
               IF tx.id.some
               THEN With(store, tx.entity, Without(store[tx.entity], tx.id.val))
               ELSE Without(store, tx.entity)

\* the encrypted-keys map after tx
ApplyEncryption(tx, encrypts) ==
    CASE tx.kind = "CreateEntity" -> With(encrypts, tx.entity, tx.encrypts)
      [] tx.kind = "Evict" /\ ~tx.id.some -> Without(encrypts, tx.entity)
      [] OTHER -> encrypts

----------------------------------------------------------------------------
(* The log reader (actors/when.rs) and core/query.rs *)

\* Handler<ReadEntityIdAt>: folds the lines of the entity id in date_log
ReadEntityIdAt(lines, entity, id, date_log) ==
    Ok(FoldLines(LinesOf(read_date_log(lines, date_log), entity, id)))

\* filter_keys_and_hash(state, keys): drops the Hash values and, when keys
\* are given, the other keys
filter_keys_and_hash(state, keys) ==
    LET shown == {k \in DOMAIN state : ~is_hash(state[k])}
    IN Restrict(state, IF keys.some THEN shown \cap keys.val ELSE shown)

\* Handler<ReadEntitiesAt>: folds the lines of every id of the entity in
\* date_log
ReadEntitiesAt(lines, entity, date_log, keys) ==
    LET day == read_date_log(lines, date_log)
        ids == {day[k].entity_id : k \in {j \in 1..Len(day) : day[j].entity_name = entity}}
    IN Ok([id \in ids |-> filter_keys_and_hash(FoldLines(LinesOf(day, entity, id)), keys)])

\* Handler<ReadEntityRange>: reads date_log and the day-logs that follow it
\* up to the day of end_date, and keeps the lines of the entity id stamped
\* from start_date to end_date
ReadEntityRange(lines, entity, id, start_date, end_date, date_log) ==
    LET files == {date_log} \cup {DateLog(t) : t \in start_date..end_date}
        read == LinesOf(SelectSeq(lines, LAMBDA r : DateLog(r.timestamp) \in files),
                        entity, id)
        kept == {k \in 1..Len(read) : /\ start_date <= read[k].timestamp
                                      /\ read[k].timestamp <= end_date}
    IN Ok([t \in {read[k].timestamp : k \in kept} |->
              read[CHOOSE k \in kept : read[k].timestamp = t].state])

\* the functions of a SELECT: LIMIT, OFFSET, DEDUP and COUNT
NoFunctions == [limit |-> None, offset |-> None, dedup |-> None, count |-> FALSE]
Functions == {NoFunctions,
              [limit |-> Some(1), offset |-> None, dedup |-> None, count |-> FALSE],
              [limit |-> None, offset |-> Some(1), dedup |-> None, count |-> TRUE]}
\* functions with DEDUP a
DedupFunctions ==
    {[limit |-> Some(1), offset |-> None, dedup |-> Some("a"), count |-> FALSE],
     [limit |-> Some(1), offset |-> Some(1), dedup |-> Some("a"), count |-> FALSE],
     [limit |-> None, offset |-> Some(1), dedup |-> Some("a"), count |-> TRUE],
     [limit |-> None, offset |-> None, dedup |-> Some("a"), count |-> FALSE]}

\* get_limit_offset_count(functions): no LIMIT is usize::MAX, here None
get_limit_offset_count(functions) ==
    [limit |-> functions.limit,
     offset |-> IF functions.offset.some THEN functions.offset.val ELSE 0,
     count |-> functions.count]

\* how many ids of a BTreeMap come before id
Rank(ids, id) == Cardinality({j \in ids : j < id})

\* .skip(offset).take(limit) over the ids in their order
SkipTake(ids, offset, limit) ==
    {id \in ids : /\ Rank(ids, id) >= offset
                  /\ limit.some => Rank(ids, id) < offset + limit.val}

\* registries_to_states(registries, keys, offset, limit)
registries_to_states(registries, keys, offset, limit) ==
    [id \in SkipTake(DOMAIN registries, offset, limit) |->
        filter_keys_and_hash(registries[id].state, keys)]

\* the value a state has at a key; a missing key is Nil
ValueAt(state, k) == IF k \in DOMAIN state THEN state[k] ELSE Nil

\* DEDUP over the rows of a BTreeMap, given the value of each row at the
\* key: of the rows with one value the first in the order of the ids is kept
DedupIds(values) ==
    {id \in DOMAIN values :
        ~\E j \in DOMAIN values : j < id /\ values[j] = values[id]}

\* dedup_states(states, functions)
dedup_states(states, functions) ==
    IF functions.dedup.some
    THEN LET k == functions.dedup.val
             values == [id \in DOMAIN states |-> ValueAt(states[id], k)]
         IN Restrict(states, DedupIds(values))
    ELSE states

\* dedup_option_states(states, functions): the rows are Option states
dedup_option_states(states, functions) ==
    IF functions.dedup.some
    THEN LET k == functions.dedup.val
             values == [id \in DOMAIN states |->
                           IF states[id].some THEN ValueAt(states[id].val, k) ELSE Nil]
         IN Restrict(states, DedupIds(values))
    ELSE states

\* get_result_after_manipulation(states, functions, count): the functions
\* modelled hold no ORDER BY and no GROUP BY
get_result_after_manipulation(states, functions, count) ==
    IF count
    THEN [kind |-> "WithCount", states |-> states, count |-> Cardinality(DOMAIN states)]
    ELSE [kind |-> "All", states |-> states]

\* the keys of a BTreeMap in the order its iterator yields them
RECURSIVE BTreeKeys(_)
BTreeKeys(ids) ==
    IF ids = {} THEN <<>>
    ELSE LET first == CHOOSE x \in ids : \A y \in ids : x <= y
         IN <<first>> \o BTreeKeys(ids \ {first})

\* the rows of a BTreeMap as a response serializes them: in the order of
\* the keys
BTreeRows(states) ==
    LET keys == BTreeKeys(DOMAIN states)
    IN [k \in 1..Len(keys) |-> [id |-> keys[k], state |-> states[keys[k]]]]

\* get_result_after_manipulation_for_options(states, functions, count)
get_result_after_manipulation_for_options(states, functions, count) ==
    IF count
    THEN [kind |-> "OptionWithCount", rows |-> BTreeRows(states),
          count |-> Cardinality(DOMAIN states)]
    ELSE [kind |-> "OptionSelect", rows |-> BTreeRows(states)]

----------------------------------------------------------------------------
(* Queries (the Wql nodes of wql/src/lib.rs) *)

\* ToSelect::All and ToSelect::Keys
ToSelectAll == [all |-> TRUE]
ToSelectKeys(keys) == [all |-> FALSE, keys |-> keys]
ToSelects == {ToSelectAll, ToSelectKeys({"a"})}

Select(entity, to_select, id, functions) ==
    [kind |-> "Select", entity |-> entity, to_select |-> to_select,
     id |-> id, functions |-> functions]
SelectWhen(entity, to_select, id, date) ==
    [kind |-> "SelectWhen", entity |-> entity, to_select |-> to_select,
     id |-> id, date |-> date]
SelectWhenRange(entity, id, start_date, end_date) ==
    [kind |-> "SelectWhenRange", entity |-> entity, id |-> id,
     start_date |-> start_date, end_date |-> end_date]
SelectIds(entity, to_select, ids, functions) ==
    [kind |-> "SelectIds", entity |-> entity, to_select |-> to_select,
     ids |-> ids, functions |-> functions]
CheckValue(entity, id, content) ==
    [kind |-> "CheckValue", entity |-> entity, id |-> id, content |-> content]
\* Wql::RelationQuery(queries, relation, RelationType::Key) and
\* Wql::Join(entity_a, entity_b, queries); an entity of a join is <<name, key>>
RelationQuery(queries, relation) ==
    [kind |-> "RelationQuery", queries |-> queries, relation |-> relation]
Join(entity_a, entity_b, queries) ==
    [kind |-> "Join", entity_a |-> entity_a, entity_b |-> entity_b, queries |-> queries]
\* Wql::UpdateContent and Wql::MatchUpdate, as nodes a body can parse to
UpdateContentTx(entity, content, id) ==
    [kind |-> "UpdateContent", entity |-> entity, content |-> content, id |-> id]
MatchUpdateTx(entity, content, id, conditions) ==
    [kind |-> "MatchUpdate", entity |-> entity, content |-> content, id |-> id,
     conditions |-> conditions]
\* a body that read_symbol rejects
BadQuery == [kind |-> "BadQuery"]
\* a body given by its characters: the empty text and a text of white space
Text(chars) == [kind |-> "Text", chars |-> chars]
EmptyText == Text(<<>>)
BlankText == Text(<<" ", "\t">>)

OptionIds == {None} \cup {Some(i) : i \in Ids}

SelectIdQueries ==
    {Select(EntityName, ts, Some(i), NoFunctions) : ts \in ToSelects, i \in Ids}
SelectAllQueries ==
    {Select(EntityName, ts, None, f) : ts \in ToSelects, f \in Functions}
SelectQueries == SelectIdQueries \cup SelectAllQueries
WhenQueries ==
    {SelectWhen(EntityName, ts, i, d) : ts \in ToSelects, i \in OptionIds, d \in Dates}
RangeDates ==
    {<<ValidDate(s), ValidDate(f)>> : s \in 0..MaxTime, f \in 0..MaxTime}
        \cup {<<InvalidDate, ValidDate(0)>>, <<ValidDate(0), InvalidDate>>}
RangeQueries ==
    {SelectWhenRange(EntityName, i, d[1], d[2]) : i \in Ids, d \in RangeDates}
TemporalQueries == WhenQueries \cup RangeQueries
\* the ids of a SELECT ... IDS IN #{..}, in the order of the request
IdLists == {<<1>>, <<1, 2>>, <<2, 1>>, <<1, 1, 2>>}
IdsFunctions ==
    {NoFunctions,
     [limit |-> Some(1), offset |-> None, dedup |-> None, count |-> FALSE],
     [limit |-> Some(1), offset |-> Some(1), dedup |-> Some("a"), count |-> FALSE],
     [limit |-> None, offset |-> None, dedup |-> Some("a"), count |-> TRUE]}
SelectIdsQueries ==
    {SelectIds(EntityName, ts, ids, f) :
        ts \in ToSelects, ids \in IdLists, f \in IdsFunctions}
SelectDedupQueries ==
    {Select(EntityName, ts, None, f) : ts \in ToSelects, f \in DedupFunctions}
\* the map of a CHECK: key -> the text to verify
CheckContents == {[a |-> "1"], [b |-> "1"], [a |-> "1", b |-> "2"]}
CheckQueries ==
    {CheckValue(EntityName, i, c) : i \in Ids, c \in CheckContents}
\* an entity name that no transaction of the model creates
OtherEntity == "e2"
\* one query of each in-memory read on that name
OtherEntityQueries ==
    {Select(OtherEntity, ToSelectAll, Some(1), NoFunctions),
     Select(OtherEntity, ToSelectKeys({"a"}), Some(1), NoFunctions),
     Select(OtherEntity, ToSelectAll, None, NoFunctions),
     Select(OtherEntity, ToSelectKeys({"a"}), None, NoFunctions),
     SelectIds(OtherEntity, ToSelectAll, <<1, 2>>, NoFunctions),
     SelectIds(OtherEntity, ToSelectKeys({"a"}), <<1, 2>>, NoFunctions),
     CheckValue(OtherEntity, 1, [b |-> "1"])}
\* the queries that read local_data
ReadBodies ==
    SelectQueries \cup SelectDedupQueries \cup SelectIdsQueries \cup CheckQueries
        \cup OtherEntityQueries
QueryBodies ==
    SelectQueries \cup TemporalQueries
        \cup {DeleteTx(EntityName, 1), BadQuery}

\* s.trim_start()
RECURSIVE trim_start(_)
trim_start(chars) ==
    IF Len(chars) > 0 /\ Head(chars) \in {" ", "\t", "\n"}
    THEN trim_start(Tail(chars)) ELSE chars

\* parse(tokens.next(), &mut tokens): no first character is "Empty WQL"; the
\* texts of the model that have one are those read_symbol rejects
parse(chars) == Err("QueryFormat")

\* Wql::from_str(&body); a body given as a node stands for a text that
\* parses to it
Wql_from_str(body) ==
    IF body.kind = "Text" THEN parse(trim_start(body.chars))
    ELSE IF body = BadQuery THEN Err("QueryFormat")
    ELSE Ok(body)

\* Error::EntityNotCreated(entity), Error::IdNotCreatedForEntity(entity, id)
EntityNotCreated(entity) ==
    [kind |-> "Error", error |-> "EntityNotCreated", entity |-> entity]
IdNotCreatedForEntity(entity, id) ==
    [kind |-> "Error", error |-> "IdNotCreatedForEntity", entity |-> entity, id |-> id]

\* Error::CheckNonEncryptedKeys(keys)
CheckNonEncryptedKeys(keys) ==
    [kind |-> "Error", error |-> "CheckNonEncryptedKeys", keys |-> keys]

\* the request's task panics: unwrap() of a None
Panic == [kind |-> "Panic"]

\* QueryResponse::Id, ::DateSelect, ::TimeRange
ResponseId(state) == [kind |-> "Id", state |-> state]
ResponseDateSelect(states) == [kind |-> "DateSelect", states |-> states]
ResponseTimeRange(states) == [kind |-> "TimeRange", states |-> states]

----------------------------------------------------------------------------
(* The query controllers (controllers/query.rs) *)

\* a variant of Registry that looks for the id before the entity
RegistryIdFirst(entity, id, store, lock) ==
    IF LockFails(lock) THEN Err(Error("LockData"))
    ELSE IF ~HasId(store, entity, id) THEN Err(IdNotCreatedForEntity(entity, id))
    ELSE Ok(store[entity][id])

\* the registry of an entity id, or the error of the lookup
Registry(entity, id, store, lock) ==
    IF LockFails(lock) THEN Err(Error("LockData"))
    ELSE IF ~HasEntity(store, entity) THEN Err(EntityNotCreated(entity))
    ELSE IF id \notin DOMAIN store[entity] THEN Err(IdNotCreatedForEntity(entity, id))
    ELSE Ok(store[entity][id])

\* a variant of Registries that finds no registry under an absent entity
RegistriesOrNone(entity, store, lock) ==
    IF LockFails(lock) THEN Err(Error("LockData"))
    ELSE IF ~HasEntity(store, entity) THEN Ok(EmptyMap)
    ELSE Ok(store[entity])

\* the registries of an entity, or the error of the lookup
Registries(entity, store, lock) ==
    IF LockFails(lock) THEN Err(Error("LockData"))
    ELSE IF ~HasEntity(store, entity) THEN Err(EntityNotCreated(entity))
    ELSE Ok(store[entity])

\* a variant of select_all_with_id that returns the key a only
select_all_with_id_one_key(entity, id, store, lock) ==
    LET registry == Registry(entity, id, store, lock)
    IN IF ~registry.ok THEN registry.err
       ELSE ResponseId(filter_keys_and_hash(registry.val.state, Some({"a"})))

select_all_with_id(entity, id, store, lock) ==
    LET registry == Registry(entity, id, store, lock)
    IN IF ~registry.ok THEN registry.err
       ELSE ResponseId(filter_keys_and_hash(registry.val.state, None))

select_keys_with_id(entity, id, keys, store, lock) ==
    LET registry == Registry(entity, id, store, lock)
    IN IF ~registry.ok THEN registry.err
       ELSE ResponseId(filter_keys_and_hash(registry.val.state, Some(keys)))

\* a variant of select_all that applies DEDUP before OFFSET and LIMIT
select_all_dedup_first(entity, store, lock, functions) ==
    LET loc == get_limit_offset_count(functions)
        registries == Registries(entity, store, lock)
    IN IF ~registries.ok THEN registries.err
       ELSE LET states == registries_to_states(registries.val, None, 0, None)
                deduped == dedup_states(states, functions)
            IN get_result_after_manipulation(
                   Restrict(deduped, SkipTake(DOMAIN deduped, loc.offset, loc.limit)),
                   functions, loc.count)

select_all(entity, store, lock, functions) ==
    LET loc == get_limit_offset_count(functions)
        registries == Registries(entity, store, lock)
    IN IF ~registries.ok THEN registries.err
       ELSE LET states == registries_to_states(registries.val, None, loc.offset, loc.limit)
            IN get_result_after_manipulation(dedup_states(states, functions),
                                             functions, loc.count)

select_args(entity, keys, store, lock, functions) ==
    LET loc == get_limit_offset_count(functions)
        registries == Registries(entity, store, lock)
    IN IF ~registries.ok THEN registries.err
       ELSE LET states == registries_to_states(registries.val, Some(keys),
                                               loc.offset, loc.limit)
            IN get_result_after_manipulation(dedup_states(states, functions),
                                             functions, loc.count)

\* .skip(offset).take(limit) over a Vec
SkipTakeSeq(seq, offset, limit) ==
    LET last == IF limit.some /\ offset + limit.val < Len(seq)
                THEN offset + limit.val ELSE Len(seq)
    IN SubSeq(seq, offset + 1, last)

\* the ids of the request that have a registry, in the order of the request
RegistriesOfIds(ids, id_to_registry) ==
    SelectSeq(ids, LAMBDA id : id \in DOMAIN id_to_registry)

\* the BTreeMap the loop of select_*_with_ids fills
StatesOfIds(taken, id_to_registry, keys) ==
    [id \in {taken[k] : k \in 1..Len(taken)} |->
        Some(filter_keys_and_hash(id_to_registry[id].state, keys))]

\* a variant of select_all_with_ids that fails on an id without a registry
select_all_with_ids_strict(entity, ids, store, lock, functions) ==
    LET loc == get_limit_offset_count(functions)
        registries == Registries(entity, store, lock)
    IN IF ~registries.ok THEN registries.err
       ELSE IF \E k \in 1..Len(ids) : ids[k] \notin DOMAIN registries.val
       THEN IdNotCreatedForEntity(
                entity, ids[CHOOSE k \in 1..Len(ids) : ids[k] \notin DOMAIN registries.val])
       ELSE LET taken == SkipTakeSeq(ids, loc.offset, loc.limit)
                states == StatesOfIds(taken, registries.val, None)
            IN get_result_after_manipulation_for_options(
                   dedup_option_states(states, functions), functions, loc.count)

select_all_with_ids(entity, ids, store, lock, functions) ==
    LET loc == get_limit_offset_count(functions)
        registries == Registries(entity, store, lock)
    IN IF ~registries.ok THEN registries.err
       ELSE LET found == RegistriesOfIds(ids, registries.val)
                taken == SkipTakeSeq(found, loc.offset, loc.limit)
                states == StatesOfIds(taken, registries.val, None)
            IN get_result_after_manipulation_for_options(
                   dedup_option_states(states, functions), functions, loc.count)

select_keys_with_ids(entity, keys, ids, store, lock, functions) ==
    LET loc == get_limit_offset_count(functions)
        registries == Registries(entity, store, lock)
    IN IF ~registries.ok THEN registries.err
       ELSE LET found == RegistriesOfIds(ids, registries.val)
                taken == SkipTakeSeq(found, loc.offset, loc.limit)
                states == StatesOfIds(taken, registries.val, Some(keys))
            IN get_result_after_manipulation_for_options(
                   dedup_option_states(states, functions), functions, loc.count)

\* Handler<DataRegister> and Handler<State>: the state of the register at
\* the place the DataRegister names
ReadRegisterState(lines, register) == lines[register.offset].state

\* Handler<VerifyEncryption>: key -> whether the text verifies against the
\* Hash the state holds
VerifyEncryption(filtered_state, content) ==
    [kind |-> "CheckValues",
     values |-> [k \in DOMAIN filtered_state |->
                    /\ is_hash(filtered_state[k])
                    /\ BcryptVerify(Plain(content[k]), filtered_state[k][2])]]

\* the keys of content that check_value_controller finds not encrypted: it
\* looks only when it gets the lock and the map has the entity
NonEncryptKeys(entity, content, encrypts, encrypt_lock) ==
    IF ~LockFails(encrypt_lock) /\ entity \in DOMAIN encrypts
    THEN DOMAIN content \ encrypts[entity]
    ELSE {}

check_value_controller(entity, id, content, store, lock, encrypts, encrypt_lock, lines) ==
    LET non_encrypt_keys == NonEncryptKeys(entity, content, encrypts, encrypt_lock)
    IN IF non_encrypt_keys # {} THEN CheckNonEncryptedKeys(non_encrypt_keys)
       ELSE IF LockFails(lock) THEN Error("LockData")
       ELSE IF ~HasEntity(store, entity) THEN EntityNotCreated(entity)
       ELSE IF id \notin DOMAIN store[entity] THEN Panic
       ELSE LET state == ReadRegisterState(lines, store[entity][id].register)
                filtered_state == Restrict(state, DOMAIN content)
            IN VerifyEncryption(filtered_state, content)

\* the message a temporal controller sends to the log reader
ReadEntitiesAt_new(entity, date_log, keys) ==
    [kind |-> "ReadEntitiesAt", entity |-> entity, date_log |-> date_log, keys |-> keys]
ReadEntityIdAt_new(entity, id, date_log) ==
    [kind |-> "ReadEntityIdAt", entity |-> entity, id |-> id, date_log |-> date_log]
ReadEntityRange_new(entity, id, start_date, end_date, date_log) ==
    [kind |-> "ReadEntityRange", entity |-> entity, id |-> id,
     start_date |-> start_date, end_date |-> end_date, date_log |-> date_log]

\* actor.send(message).await: the answer of the log reader
actor_send(message, lines) ==
    CASE message.kind = "ReadEntitiesAt" ->
            ReadEntitiesAt(lines, message.entity, message.date_log, message.keys)
      [] message.kind = "ReadEntityIdAt" ->
            ReadEntityIdAt(lines, message.entity, message.id, message.date_log)
      [] message.kind = "ReadEntityRange" ->
            ReadEntityRange(lines, message.entity, message.id, message.start_date,
                            message.end_date, message.date_log)

\* what a temporal controller leaves: its result and the messages it sent
\* to the log reader
Returned(result) == [result |-> result, sent |-> <<>>]
Exchanged(result, message) == [result |-> result, sent |-> <<message>>]

select_all_when_controller(entity, date, lines) ==
    LET d == ParseDate(date)
    IN IF ~d.ok THEN Returned(Error(d.err))
       ELSE LET message == ReadEntitiesAt_new(entity, DateLog(d.val), None)
                result == actor_send(message, lines)
            IN Exchanged(IF result.ok THEN ResponseDateSelect(result.val)
                         ELSE Error(result.err), message)

select_keys_when_controller(entity, date, keys, lines) ==
    LET d == ParseDate(date)
    IN IF ~d.ok THEN Returned(Error(d.err))
       ELSE LET message == ReadEntitiesAt_new(entity, DateLog(d.val), Some(keys))
                result == actor_send(message, lines)
            IN Exchanged(IF result.ok THEN ResponseDateSelect(result.val)
                         ELSE Error(result.err), message)

select_all_id_when_controller(entity, date, id, lines) ==
    LET d == ParseDate(date)
    IN IF ~d.ok THEN Returned(Error(d.err))
       ELSE LET message == ReadEntityIdAt_new(entity, id, DateLog(d.val))
                result == actor_send(message, lines)
            IN Exchanged(IF result.ok
                         THEN ResponseId(filter_keys_and_hash(result.val, None))
                         ELSE Error(result.err), message)

select_keys_id_when_controller(entity, date, keys, id, lines) ==
    LET d == ParseDate(date)
    IN IF ~d.ok THEN Returned(Error(d.err))
       ELSE LET message == ReadEntityIdAt_new(entity, id, DateLog(d.val))
                result == actor_send(message, lines)
            IN Exchanged(IF result.ok
                         THEN ResponseId(filter_keys_and_hash(result.val, Some(keys)))
                         ELSE Error(result.err), message)

\* a variant of select_all_when_range_controller that reads up to
\* start_date
select_all_when_range_to_start(entity, id, start_date, end_date, lines) ==
    LET s == ParseDate(start_date)
        f == ParseDate(end_date)
    IN IF ~s.ok THEN Returned(Error(s.err))
       ELSE IF ~f.ok THEN Returned(Error(f.err))
       ELSE LET message == ReadEntityRange_new(entity, id, s.val, s.val, DateLog(s.val))
                result == actor_send(message, lines)
            IN Exchanged(IF result.ok THEN ResponseTimeRange(result.val)
                         ELSE Error(result.err), message)

select_all_when_range_controller(entity, id, start_date, end_date, lines) ==
    LET s == ParseDate(start_date)
        f == ParseDate(end_date)
    IN IF ~s.ok THEN Returned(Error(s.err))
       ELSE IF ~f.ok THEN Returned(Error(f.err))
       ELSE LET message == ReadEntityRange_new(entity, id, s.val, f.val, DateLog(s.val))
                result == actor_send(message, lines)
            IN Exchanged(IF result.ok THEN ResponseTimeRange(result.val)
                         ELSE Error(result.err), message)

\* wql_handler, the arms of Wql::Select
wql_handler_select(query, store, lock) ==
    IF query.id.some
    THEN IF query.to_select.all
         THEN select_all_with_id(query.entity, query.id.val, store, lock)
         ELSE select_keys_with_id(query.entity, query.id.val, query.to_select.keys,
                                  store, lock)
    ELSE IF query.to_select.all
         THEN select_all(query.entity, store, lock, query.functions)
         ELSE select_args(query.entity, query.to_select.keys, store, lock,
                          query.functions)

\* wql_handler, the arms of Wql::SelectWhen and Wql::SelectWhenRange: the
\* controller each of them calls
when_exchanges(query, lines) ==
    IF query.kind = "SelectWhenRange"
    THEN select_all_when_range_controller(query.entity, query.id, query.start_date,
                                          query.end_date, lines)
    ELSE IF query.id.some
         THEN IF query.to_select.all
              THEN select_all_id_when_controller(query.entity, query.date,
                                                 query.id.val, lines)
              ELSE select_keys_id_when_controller(query.entity, query.date,
                                                  query.to_select.keys,
                                                  query.id.val, lines)
         ELSE IF query.to_select.all
              THEN select_all_when_controller(query.entity, query.date, lines)
              ELSE select_keys_when_controller(query.entity, query.date,
                                               query.to_select.keys, lines)

\* the results of the controllers of Wql::SelectWhen and Wql::SelectWhenRange
when_controllers(query, lines) == when_exchanges(query, lines).result

\* the messages the controller of a temporal query sends to the log reader
when_sent(query, lines) == when_exchanges(query, lines).sent

\* a variant of the temporal arms that takes the lock of local_data
wql_handler_when_locking(query, store, lock, lines) ==
    IF LockFails(lock) THEN Error("LockData") ELSE when_controllers(query, lines)

\* wql_handler, the arms of Wql::SelectWhen and Wql::SelectWhenRange: they
\* are handed the actor and not local_data
wql_handler_when(query, store, lock, lines) == when_controllers(query, lines)

\* wql_handler, the arms of Wql::SelectIds
wql_handler_select_ids(query, store, lock) ==
    IF query.to_select.all
    THEN select_all_with_ids(query.entity, query.ids, store, lock, query.functions)
    ELSE select_keys_with_ids(query.entity, query.to_select.keys, query.ids,
                              store, lock, query.functions)

\* the rows of the two operands of a relational query or a join, or the
\* first error among them
Operands(queries, store, lock) ==
    LET a == wql_handler_select(queries[1], store, lock)
        b == wql_handler_select(queries[2], store, lock)
    IN IF a.kind = "Error" THEN Err(a)
       ELSE IF b.kind = "Error" THEN Err(b)
       ELSE Ok([a |-> a.states, b |-> b.states])

\* intersect, difference and union over KEY: by presence of the row id
relation(queries, rel, store, lock) ==
    LET rows == Operands(queries, store, lock)
    IN IF ~rows.ok THEN rows.err
       ELSE LET a == rows.val.a
                b == rows.val.b
            IN [kind |-> "All",
                states |->
                    CASE rel = "Intersect" -> Restrict(a, DOMAIN b)
                      [] rel = "Difference" -> Restrict(a, DOMAIN a \ DOMAIN b)
                      [] rel = "Union" ->
                            [id \in DOMAIN a \cup DOMAIN b |->
                                IF id \in DOMAIN a THEN a[id] ELSE b[id]]]

\* join: pairs the rows of the two entities that agree on the two keys
join(entity_a, entity_b, queries, store, lock) ==
    LET rows == Operands(queries, store, lock)
    IN IF ~rows.ok THEN rows.err
       ELSE LET a == rows.val.a
                b == rows.val.b
            IN [kind |-> "Join",
                rows |-> {[left |-> a[i], right |-> b[j]] :
                             <<i, j>> \in {p \in (DOMAIN a) \X (DOMAIN b) :
                                 ValueAt(a[p[1]], entity_a[2])
                                     = ValueAt(b[p[2]], entity_b[2])}}]

\* the arm Ok(_) of wql_handler: every other node
non_select_as_rows(query) == [kind |-> "All", states |-> EmptyMap]
non_select(query) == Error("NonSelectQuery")

\* wql_handler(body, local_data, encryption, actor)
wql_handler(body, store, lock, encrypts, encrypt_lock, lines) ==
    LET query == Wql_from_str(body)
    IN IF ~query.ok THEN Error(query.err)
       ELSE IF query.val.kind = "Select"
            THEN wql_handler_select(query.val, store, lock)
       ELSE IF query.val.kind = "SelectIds"
            THEN wql_handler_select_ids(query.val, store, lock)
       ELSE IF query.val.kind = "CheckValue"
            THEN check_value_controller(query.val.entity, query.val.id,
                                        query.val.content, store, lock,
                                        encrypts, encrypt_lock, lines)
       ELSE IF query.val.kind \in {"SelectWhen", "SelectWhenRange"}
            THEN wql_handler_when(query.val, store, lock, lines)
       ELSE IF query.val.kind = "RelationQuery"
            THEN relation(query.val.queries, query.val.relation, store, lock)
       ELSE IF query.val.kind = "Join"
            THEN join(query.val.entity_a, query.val.entity_b, query.val.queries,
                      store, lock)
       ELSE non_select(query.val)

\* the arms of wql_handler that lock local_data
TakesLock(body) ==
    body.kind \in {"Select", "SelectIds", "CheckValue", "RelationQuery", "Join"}

----------------------------------------------------------------------------
(* Actions *)

\* no read is between its steps
NoRead == [kind |-> "NoRead"]

Init ==
    /\ usersLog = <<>>
    /\ sessions = <<>>
    /\ nextUuid = 1
    /\ now = 0
    /\ issued = <<>>
    /\ resp = [op |-> "none", result |-> [kind |-> "None"]]
    /\ local_data = EmptyMap
    /\ encryption = EmptyMap
    /\ dayLogs = <<>>
    /\ stateLock = "free"
    /\ pending = NoTx
    /\ encryptLock = "free"
    /\ sessionLock = "free"
    /\ reading = NoRead
    /\ lhs = Nil
    /\ rhs = Nil
    /\ idValue = IdNumber(0)

\* no response is waiting to be sent
NoResponse == [op |-> "none", result |-> [kind |-> "None"]]
Idle == resp = NoResponse

\* the response of the last handler is sent to the client
Respond ==
    /\ ~Idle
    /\ resp' = NoResponse
    /\ UNCHANGED <<typesVars, authVars, queryVars, now>>

\* the clock advances
Tick ==
    /\ Idle
    /\ now < MaxTime
    /\ now' = now + 1
    /\ UNCHANGED resp
    /\ UNCHANGED <<typesVars, authVars, queryVars>>

\* POST /auth/createUser
CreateUserReq(body, io_ok) ==
    LET r == create_user_controller(body, AdminInfo, nextUuid, io_ok, usersLog)
    IN /\ Idle
       /\ nextUuid + r.drawn <= MaxUuid + 1
       /\ usersLog' = r.log
       /\ nextUuid' = nextUuid + r.drawn
       /\ resp' = [op |-> "create_user", result |-> r.result]
       /\ UNCHANGED <<typesVars, sessions, issued, sessionLock, now, queryVars>>

CreateUser == \E body \in CreateUserBodies, io_ok \in BOOLEAN : CreateUserReq(body, io_ok)

\* POST /auth/deleteUsers
DeleteUsersReq(body, io_ok) ==
    LET r == delete_users_controller(body, AdminInfo, io_ok, usersLog)
    IN /\ Idle
       /\ body.ok => \A k \in 1..Len(body.users_ids) : body.users_ids[k] < nextUuid
       /\ usersLog' = r.log
       /\ resp' = [op |-> "delete_users", result |-> r.result]
       /\ UNCHANGED <<typesVars, sessions, nextUuid, issued, sessionLock, now, queryVars>>

DeleteUsers == \E body \in DeleteUsersBodies, io_ok \in BOOLEAN : DeleteUsersReq(body, io_ok)

\* PUT /auth/putUserSession
PutUserSessionReq(body) ==
    LET r == put_user_session_controller(body, usersLog, sessions, sessionLock, now,
                                         ExpirationTime, nextUuid)
    IN /\ Idle
       /\ body.ok => body.id < nextUuid
       /\ nextUuid + r.drawn <= MaxUuid + 1
       /\ sessions' = r.sessions
       /\ nextUuid' = nextUuid + r.drawn
       /\ issued' = IF r.result.kind = "Token"
                    THEN SessionInsert(issued, r.result.token,
                             [at |-> now, user |-> body.id,
                              roles |-> find_user(usersLog, body.id).val.roles])
                    ELSE issued
       /\ resp' = [op |-> "put_user_session", result |-> r.result]
       /\ UNCHANGED <<typesVars, usersLog, sessionLock, now, queryVars>>

PutUserSession == \E body \in SessionBodies : PutUserSessionReq(body)

\* a request to /wql/tx or /wql/query carrying Authorization: Bearer <token>
AuthorizeReq(token, role) ==
    /\ Idle
    /\ resp' = [op |-> "authorize",
                result |-> IF authorize(sessions, token, role, now)
                           THEN [kind |-> "Authorized", token |-> token, role |-> role]
                           ELSE Error("AuthorizationBadRequest")]
    /\ sessions' = purge(sessions, token, now)
    /\ UNCHANGED <<typesVars, usersLog, nextUuid, issued, sessionLock, now, queryVars>>

Authorize ==
    \E token \in DOMAIN issued \cup {BogusToken}, role \in Roles : AuthorizeReq(token, role)

AuthNext == Tick \/ Respond \/ CreateUser \/ DeleteUsers \/ PutUserSession \/ Authorize

AuthSpec == Init /\ [][AuthNext]_vars

\* POST /wql/tx, until the register is appended and flushed: the executor
\* takes the lock, revalidates, and appends
TxBegin(tx) ==
    /\ Idle
    /\ stateLock = "free"
    /\ UsesEncryption(tx) => encryptLock = "free"
    /\ TxValid(tx, local_data)
    /\ WritesRegister(tx) => now < MaxTime
    /\ stateLock' = "held"
    /\ pending' = tx
    /\ dayLogs' = AppendRegister(dayLogs, tx, local_data, encryption, now)
    /\ now' = IF WritesRegister(tx) THEN now + 1 ELSE now
    /\ UNCHANGED <<typesVars, authVars, local_data, encryption, resp, encryptLock, reading>>

\* POST /wql/tx, the rest: the executor swaps the state and releases the lock
TxCommit ==
    /\ Idle
    /\ stateLock = "held"
    /\ local_data' = ApplyTx(pending, local_data, dayLogs)
    /\ encryption' = ApplyEncryption(pending, encryption)
    /\ stateLock' = "free"
    /\ pending' = NoTx
    /\ resp' = [op |-> "tx", result |-> [kind |-> "Ok"]]
    /\ UNCHANGED <<typesVars, authVars, dayLogs, now, encryptLock, reading>>

\* the thread that holds the lock panics: the lock is poisoned
TxPanic ==
    /\ Idle
    /\ stateLock = "held"
    /\ stateLock' = "poisoned"
    /\ pending' = NoTx
    /\ resp' = [op |-> "tx", result |-> [kind |-> "Panic"]]
    /\ UNCHANGED <<typesVars, authVars, local_data, encryption, dayLogs, now, encryptLock, reading>>

\* POST /wql/tx of a transaction the executor rejects
TxReject(tx) ==
    /\ Idle
    /\ stateLock # "held"
    /\ LockFails(stateLock) \/ ~TxValid(tx, local_data)
    /\ resp' = [op |-> "tx",
                result |-> IF LockFails(stateLock) THEN Error("LockData")
                           ELSE Error("Rejected")]
    /\ UNCHANGED <<typesVars, authVars, queryVars, now>>

\* a variant of QueryReq whose lookup takes the registries of the entity out
\* of the store
QueryReqTaking(body) ==
    /\ Idle
    /\ TakesLock(body) => stateLock # "held"
    /\ resp' = [op |-> body.kind,
                result |-> wql_handler(body, local_data, stateLock, encryption,
                                       encryptLock, dayLogs)]
    /\ local_data' = IF body.kind = "Select" /\ HasEntity(local_data, body.entity)
                     THEN With(local_data, body.entity, EmptyMap)
                     ELSE local_data
    /\ UNCHANGED <<typesVars, authVars, encryption, dayLogs, stateLock, pending,
                   encryptLock, reading, now>>

\* POST /wql/query; a Select waits for the lock
QueryReq(body) ==
    /\ Idle
    /\ TakesLock(body) => stateLock # "held"
    /\ resp' = [op |-> body.kind,
                result |-> wql_handler(body, local_data, stateLock, encryption,
                                       encryptLock, dayLogs)]
    /\ UNCHANGED <<typesVars, authVars, queryVars, now>>

Tx == \E tx \in Transactions : TxBegin(tx)
Reject == \E tx \in Transactions : TxReject(tx)
Query == \E body \in QueryBodies : QueryReq(body)

Read == \E body \in ReadBodies : QueryReq(body)

\* a transaction panics while it holds the lock of encryption, which is
\* poisoned
EncryptPanic ==
    /\ Idle
    /\ stateLock = "held"
    /\ UsesEncryption(pending)
    /\ encryptLock' = "poisoned"
    /\ stateLock' = "free"
    /\ pending' = NoTx
    /\ resp' = [op |-> "tx", result |-> [kind |-> "Panic"]]
    /\ UNCHANGED <<typesVars, authVars, local_data, encryption, dayLogs, now, reading>>

ReadNext == Respond \/ Tx \/ TxCommit \/ TxPanic \/ EncryptPanic \/ Read

ReadSpec == Init /\ [][ReadNext]_vars

\* the transactions and the createUser bodies of LockSpec
LockTransactions ==
    {CreateEntityTx(EntityName, {"b"}),
     InsertTx(EntityName, [a |-> Integer(2), b |-> Integer(1)], 1)}
LockUserBodies ==
    {body \in CreateUserBodies :
        body.ok /\ is_valid_hash(AdminInfo, body.admin_password, body.admin_id)}

LockTx == \E tx \in LockTransactions : TxBegin(tx)
LockCreateUser == \E body \in LockUserBodies : CreateUserReq(body, TRUE)

\* a request panics while it holds the lock of the session table, which is
\* poisoned
SessionPanic ==
    /\ Idle
    /\ sessionLock = "free"
    /\ sessionLock' = "poisoned"
    /\ resp' = [op |-> "authorize", result |-> Panic]
    /\ UNCHANGED <<typesVars, usersLog, sessions, nextUuid, issued, now, queryVars>>

LockNext ==
    \/ Respond \/ LockTx \/ TxCommit \/ TxPanic \/ EncryptPanic \/ Read
    \/ SessionPanic \/ LockCreateUser \/ PutUserSession

LockSpec == Init /\ [][LockNext]_vars

\* the state after construction, with the two Types values drawn
TypesInit ==
    /\ usersLog = <<>>
    /\ sessions = <<>>
    /\ nextUuid = 1
    /\ now = 0
    /\ issued = <<>>
    /\ resp = NoResponse
    /\ local_data = EmptyMap
    /\ encryption = EmptyMap
    /\ dayLogs = <<>>
    /\ stateLock = "free"
    /\ pending = NoTx
    /\ encryptLock = "free"
    /\ sessionLock = "free"
    /\ reading = NoRead
    /\ lhs \in TypeValues
    /\ rhs \in TypeValues
    /\ idValue = IdNumber(0)

\* Types::default_values of v, when Uuid::new_v4() returns uuid and Utc::now()
\* returns time
default_values(v, uuid, time) ==
    CASE Variant(v) = "Char" -> Char(" ")
      [] Variant(v) = "Integer" -> Integer(0)
      [] Variant(v) = "String" -> String("")
      [] Variant(v) = "Uuid" -> Uuid(uuid)
      [] Variant(v) = "Float" -> Float(FNum(1, 0))
      [] Variant(v) = "Boolean" -> Boolean(FALSE)
      [] Variant(v) = "Vector" -> Vector(<<>>)
      [] Variant(v) = "Map" -> Map(<<>>)
      [] Variant(v) = "Hash" -> Hash("")
      [] Variant(v) = "Precise" -> Precise("0")
      [] Variant(v) = "DateTime" -> DateTime(time)
      [] Variant(v) = "Nil" -> Nil

\* lhs.to_hash(cost)
ToHash ==
    /\ Idle
    /\ \E cost \in Costs :
           resp' = [op |-> "to_hash", cost |-> cost, result |-> to_hash(lhs, cost)]
    /\ UNCHANGED <<typesVars, authVars, queryVars, now>>

\* lhs.partial_cmp(&rhs)
PartialCmp ==
    /\ Idle
    /\ resp' = [op |-> "partial_cmp", result |-> partial_cmp(lhs, rhs)]
    /\ UNCHANGED <<typesVars, authVars, queryVars, now>>

\* lhs.hash(state) and rhs.hash(state), each into a fresh hasher
HashValues ==
    /\ Idle
    /\ \E i \in IterOrders(lhs), j \in IterOrders(rhs) :
           resp' = [op |-> "hash", left |-> hash(lhs, i), right |-> hash(rhs, j)]
    /\ UNCHANGED <<typesVars, authVars, queryVars, now>>

\* lhs.default_values() and, at the same time or later, rhs.default_values():
\* each call draws its own uuid and reads the clock
DefaultValues ==
    /\ Idle
    /\ \E first \in Uuids, second \in Uuids, t1 \in 0..MaxTime, t2 \in 0..MaxTime :
           /\ t1 <= t2
           /\ resp' = [op |-> "default_values",
                       left |-> default_values(lhs, first, t1),
                       right |-> default_values(rhs, second, t2)]
    /\ UNCHANGED <<typesVars, authVars, queryVars, now>>

TypesNext == Respond \/ ToHash \/ PartialCmp \/ HashValues \/ DefaultValues

TypesSpec == TypesInit /\ [][TypesNext]_vars

\* the state after construction, with the ID drawn
IdInit ==
    /\ usersLog = <<>>
    /\ sessions = <<>>
    /\ nextUuid = 1
    /\ now = 0
    /\ issued = <<>>
    /\ resp = NoResponse
    /\ local_data = EmptyMap
    /\ encryption = EmptyMap
    /\ dayLogs = <<>>
    /\ stateLock = "free"
    /\ pending = NoTx
    /\ encryptLock = "free"
    /\ sessionLock = "free"
    /\ reading = NoRead
    /\ lhs = Nil
    /\ rhs = Nil
    /\ idValue \in IdValues

\* idValue.to_string()
IdToString ==
    /\ Idle
    /\ resp' = [op |-> "ID::to_string", text |-> ID_to_string(idValue)]
    /\ UNCHANGED <<typesVars, authVars, queryVars, now>>

\* ID::from_str of the text the last step printed
IdFromStr ==
    /\ resp.op = "ID::to_string"
    /\ resp' = [op |-> "ID::from_str", text |-> resp.text,
                result |-> ID_from_str(resp.text)]
    /\ UNCHANGED <<typesVars, authVars, queryVars, now>>

IdNext == Respond \/ IdToString \/ IdFromStr

IdSpec == IdInit /\ [][IdNext]_vars

\* the reads and the transactions of CloneSpec
CloneBodies ==
    {Select(EntityName, ToSelectAll, Some(1), NoFunctions),
     Select(EntityName, ToSelectKeys({"a"}), None,
            [limit |-> Some(1), offset |-> None, dedup |-> Some("a"), count |-> FALSE]),
     SelectIds(EntityName, ToSelectAll, <<2, 1>>, NoFunctions),
     CheckValue(EntityName, 1, [b |-> "1"]),
     CheckValue(EntityName, 1, [a |-> "1"])}
CloneTransactions ==
    {CreateEntityTx(EntityName, {"b"}),
     InsertTx(EntityName, [a |-> Integer(2), b |-> Integer(1)], 1),
     InsertTx(EntityName, [a |-> Integer(1)], 2),
     UpdateSetTx(EntityName, [a |-> Integer(1)], 1),
     DeleteTx(EntityName, 1),
     EvictTx(EntityName, None)}

\* a variant of DropGuard: the guard lives until the handler returns
KeepGuard(lock) == lock
\* the end of the block that took the guard: the guard is dropped and the
\* lock is free
DropGuard(lock) == "free"

\* what the handler works on after the block: the clone it took
CloneOf(clone, store) == clone

\* check_value_controller returns before it locks local_data: the keys
\* given are not all encrypted
ReturnsBeforeLock(body, encrypts) ==
    /\ body.kind = "CheckValue"
    /\ NonEncryptKeys(body.entity, body.content, encrypts, encryptLock) # {}

\* POST /wql/query arrives: the handler parses the body and, for a CHECK,
\* reads the encrypted keys of the entity
ReadStart(body) ==
    /\ Idle
    /\ reading = NoRead
    /\ reading' = [kind |-> "Started", body |-> body, encrypts |-> encryption]
    /\ UNCHANGED <<typesVars, authVars, now, resp, local_data, encryption, dayLogs,
                   stateLock, pending, encryptLock>>

\* the handler takes the lock of local_data
ReadLock ==
    /\ reading.kind = "Started"
    /\ ~ReturnsBeforeLock(reading.body, reading.encrypts)
    /\ stateLock = "free"
    /\ stateLock' = "read"
    /\ reading' = [reading EXCEPT !.kind = "Locked"]
    /\ UNCHANGED <<typesVars, authVars, now, resp, local_data, encryption, dayLogs,
                   pending, encryptLock>>

\* the handler looks up and clones what it needs, and the block ends
ReadClone ==
    /\ reading.kind = "Locked"
    /\ reading' = [kind |-> "Cloned", body |-> reading.body,
                   encrypts |-> reading.encrypts,
                   clone |-> local_data, lines |-> dayLogs]
    /\ stateLock' = DropGuard(stateLock)
    /\ UNCHANGED <<typesVars, authVars, now, resp, local_data, encryption, dayLogs,
                   pending, encryptLock>>

\* the handler projects, runs the algebra or awaits the actor, and answers
ReadFinish ==
    /\ \/ reading.kind = "Cloned"
       \/ /\ reading.kind = "Started"
          /\ ReturnsBeforeLock(reading.body, reading.encrypts)
    /\ Idle
    /\ resp' = [op |-> reading.body.kind,
                result |-> wql_handler(reading.body,
                               IF reading.kind = "Cloned"
                               THEN CloneOf(reading.clone, local_data)
                               ELSE local_data,
                               "free", reading.encrypts, encryptLock, dayLogs)]
    /\ reading' = NoRead
    /\ stateLock' = IF stateLock = "read" THEN "free" ELSE stateLock
    /\ UNCHANGED <<typesVars, authVars, now, local_data, encryption, dayLogs,
                   pending, encryptLock>>

CloneRead == \E body \in CloneBodies : ReadStart(body)
CloneTx == \E tx \in CloneTransactions : TxBegin(tx)

CloneNext ==
    \/ Respond \/ CloneTx \/ TxCommit
    \/ CloneRead \/ ReadLock \/ ReadClone \/ ReadFinish

CloneSpec == Init /\ [][CloneNext]_vars

\* the statements of FrameSpec: every arm of wql_handler
RelationOperands ==
    {Select(EntityName, ToSelectAll, None, NoFunctions),
     Select(EntityName, ToSelectAll, None,
            [limit |-> Some(1), offset |-> None, dedup |-> None, count |-> FALSE]),
     Select(OtherEntity, ToSelectAll, None, NoFunctions)}
RelationBodies ==
    {RelationQuery(<<p, q>>, r) :
        p \in RelationOperands, q \in RelationOperands,
        r \in {"Intersect", "Difference", "Union"}}
        \cup {Join(<<EntityName, "a">>, <<EntityName, "b">>, <<q, q>>) :
                  q \in RelationOperands}
NonSelectBodies ==
    {CreateEntityTx(EntityName, {"b"}),
     CreateEntityTx(OtherEntity, {}),
     InsertTx(EntityName, [a |-> Integer(1)], 2),
     UpdateSetTx(EntityName, [a |-> Integer(1)], 1),
     UpdateContentTx(EntityName, [a |-> Integer(1)], 1),
     MatchUpdateTx(EntityName, [a |-> Integer(1)], 1, <<>>),
     DeleteTx(EntityName, 1),
     EvictTx(EntityName, Some(1)),
     EvictTx(EntityName, None)}
UnparsableBodies == {BadQuery, EmptyText, BlankText}
FrameBodies ==
    ReadBodies \cup TemporalQueries \cup RelationBodies \cup NonSelectBodies
        \cup UnparsableBodies

FrameQuery == \E body \in FrameBodies : QueryReq(body)

FrameNext == Respond \/ Tx \/ TxCommit \/ FrameQuery

FrameSpec == Init /\ [][FrameNext]_vars

QueryNext == Tick \/ Respond \/ Tx \/ TxCommit \/ TxPanic \/ Reject \/ Query

QuerySpec == Init /\ [][QueryNext]_vars

----------------------------------------------------------------------------
(* Properties of the authentication controllers *)

AdminVerifies(body) == is_valid_hash(AdminInfo, body.admin_password, body.admin_id)

\* create_user returned a fresh uuid and appended the record of exactly that
\* uuid, with the hashed password and the requested roles
CreatedExactly(body) ==
    /\ resp'.result.kind = "UserId"
    /\ resp'.result.user_id >= nextUuid
    /\ resp'.result.user_id \notin LogIds(usersLog)
    /\ usersLog' = Append(usersLog,
                      [id |-> resp'.result.user_id,
                       hash |-> Bcrypt(body.user_info.user_password, AdminCost),
                       roles |-> body.user_info.role])

RejectedByGate ==
    /\ resp'.result = Error("AuthenticationBadRequest")
    /\ usersLog' = usersLog

\* C1 as stated: for every well-formed create_user request, verified admin
\* credentials yield a fresh user uuid and the appended record of that uuid;
\* credentials that do not verify yield AuthenticationBadRequest and leave
\* the users log unchanged.
C1_AsStated ==
    [][\A body \in CreateUserBodies, io_ok \in BOOLEAN :
          (resp'.op = "create_user" /\ body.ok /\ CreateUserReq(body, io_ok)) =>
              IF AdminVerifies(body) THEN CreatedExactly(body) ELSE RejectedByGate]_vars

\* C1 amended: verified admin credentials yield the fresh uuid and the
\* appended record when hashing the password and writing the users log both
\* succeed, and FailedToCreateUser (no user id) when one of them fails;
\* credentials that do not verify yield AuthenticationBadRequest and leave
\* the users log unchanged.
C1_CreateUserGated ==
    [][\A body \in CreateUserBodies, io_ok \in BOOLEAN :
          (resp'.op = "create_user" /\ body.ok /\ CreateUserReq(body, io_ok)) =>
              IF AdminVerifies(body)
              THEN IF BcryptHash(body.user_info.user_password, AdminCost).ok /\ io_ok
                   THEN CreatedExactly(body)
                   ELSE resp'.result = Error("FailedToCreateUser")
              ELSE RejectedByGate]_vars

\* create_user has just created a user
C1_Witness ==
    /\ resp.op = "create_user"
    /\ resp.result.kind = "UserId"
    /\ Len(usersLog) > 0
    /\ usersLog[Len(usersLog)].id = resp.result.user_id
    /\ IsBcrypt(usersLog[Len(usersLog)].hash)

\* C2: a bearer token is accepted iff it is in the session table, its stored
\* expiry is later than now and its stored roles include the required role;
\* so a token put_user_session issued is accepted (for a role of its user) at
\* every time before issue time + TTL and rejected at every time after it.
C2_SessionAuthorization ==
    [][\A token \in DOMAIN issued \cup {BogusToken}, role \in Roles :
          (resp'.op = "authorize" /\ AuthorizeReq(token, role)) =>
              LET accepted == resp'.result.kind = "Authorized"
              IN /\ accepted <=> /\ token \in DOMAIN sessions
                                 /\ sessions[token].expiration > now
                                 /\ role \in sessions[token].roles
                 /\ token \in DOMAIN issued =>
                      /\ (/\ now < issued[token].at + ExpirationTime
                          /\ role \in issued[token].roles) => accepted
                      /\ now > issued[token].at + ExpirationTime => ~accepted]_vars

\* a token was accepted at a time after its issue time
C2_Witness ==
    /\ resp.op = "authorize"
    /\ resp.result.kind = "Authorized"
    /\ now > issued[resp.result.token].at

\* the user record put_user_session finds for the body
FoundUser(body) == find_user(usersLog, body.id)
PasswordVerifies(body) ==
    FoundUser(body).ok /\ BcryptVerify(body.user_password, FoundUser(body).val.hash)

\* C3: put_user_session with the id of an existing user and that user's
\* password returns a token and, in the same step, stores an entry keyed by
\* exactly that token, with expiry = issue time + TTL and the roles the users
\* log records for the user.
C3_SessionStored ==
    [][\A body \in SessionBodies :
          (/\ resp'.op = "put_user_session"
           /\ body.ok /\ PasswordVerifies(body) /\ PutUserSessionReq(body)) =>
              /\ resp'.result.kind = "Token"
              /\ resp'.result.token \notin DOMAIN sessions
              /\ DOMAIN sessions' = DOMAIN sessions \cup {resp'.result.token}
              /\ sessions'[resp'.result.token].expiration = now + ExpirationTime
              /\ sessions'[resp'.result.token].roles = FoundUser(body).val.roles]_vars

\* put_user_session has just issued a token for a user with the role User only
C3_Witness ==
    /\ resp.op = "put_user_session"
    /\ resp.result.kind = "Token"
    /\ resp.result.token \in DOMAIN sessions
    /\ sessions[resp.result.token].expiration = now + ExpirationTime
    /\ sessions[resp.result.token].roles = {"User"}

\* C4: put_user_session for an id the users log does not hold, or with a
\* password that does not verify against the stored hash, returns the error
\* Unknown, returns no token and leaves the session table unchanged.
C4_NoSessionWithoutPassword ==
    [][\A body \in SessionBodies :
          (/\ resp'.op = "put_user_session"
           /\ body.ok /\ ~PasswordVerifies(body) /\ PutUserSessionReq(body)) =>
              /\ resp'.result = Error("Unknown")
              /\ sessions' = sessions]_vars

\* put_user_session has just refused a request while the users log holds a
\* user and no session exists
C4_Witness ==
    /\ resp.op = "put_user_session"
    /\ resp.result = Error("Unknown")
    /\ Len(usersLog) > 0
    /\ sessions = <<>>

ListedIds(body) == {body.users_ids[k] : k \in 1..Len(body.users_ids)}

\* absent ids stay absent, and put_user_session for an absent id fails
DeletedStaysDeleted ==
    /\ \A id \in 0..(nextUuid - 1) :
          id \notin LogIds(usersLog) => id \notin LogIds(usersLog')
    /\ \A body \in SessionBodies :
          (/\ resp'.op = "put_user_session"
           /\ body.ok /\ body.id \notin LogIds(usersLog) /\ PutUserSessionReq(body)) =>
              resp'.result.kind = "Error"

DeletedExactly(body) ==
    /\ resp'.result = [kind |-> "Uuids", ids |-> body.users_ids]
    /\ ListedIds(body) \cap LogIds(usersLog') = {}

\* C5 as stated: delete_users with verified admin credentials removes every
\* listed id and returns the requested list, a deleted id is not in the log
\* afterwards and a later put_user_session for it fails; with credentials
\* that do not verify it returns AuthenticationBadRequest and leaves the
\* users log unchanged.
C5_AsStated ==
    [][/\ \A body \in DeleteUsersBodies, io_ok \in BOOLEAN :
            (resp'.op = "delete_users" /\ body.ok /\ DeleteUsersReq(body, io_ok)) =>
                IF AdminVerifies(body) THEN DeletedExactly(body) ELSE RejectedByGate
       /\ DeletedStaysDeleted]_vars

\* C5 amended: as stated when rewriting the users log succeeds; when it
\* fails the result is FailedToDeleteUsers.
C5_DeleteUsers ==
    [][/\ \A body \in DeleteUsersBodies, io_ok \in BOOLEAN :
            (resp'.op = "delete_users" /\ body.ok /\ DeleteUsersReq(body, io_ok)) =>
                IF AdminVerifies(body)
                THEN IF io_ok THEN DeletedExactly(body)
                     ELSE resp'.result = Error("FailedToDeleteUsers")
                ELSE RejectedByGate
       /\ DeletedStaysDeleted]_vars

\* delete_users has just returned two different ids that were drawn before,
\* and the users log holds neither
C5_Witness ==
    /\ resp.op = "delete_users"
    /\ resp.result.kind = "Uuids"
    /\ Len(resp.result.ids) = 2
    /\ resp.result.ids[1] # resp.result.ids[2]
    /\ \A k \in 1..2 : resp.result.ids[k] \in 1..(nextUuid - 1)
    /\ usersLog = <<>>

ErrorNames ==
    {"AuthenticationBadRequest", "AuthenticationBadRequestBody", "FailedToCreateUser",
     "FailedToDeleteUsers", "Unknown", "AuthorizationBadRequest"}

\* a session token: a bcrypt hash of a uuid, or a uuid
FromFreshUuid(token) ==
    IF IsBcrypt(token) THEN token[2][1] = "uuid" ELSE token[1] = "uuid"

\* C6: no plaintext password is in the users log, the session table or a
\* response: the users log holds the bcrypt hash of the user password, the
\* create_user response holds only the user id, and a session token is
\* derived from a fresh uuid.
C6_NoPlaintextPassword ==
    /\ \A k \in 1..Len(usersLog) :
          /\ DOMAIN usersLog[k] = {"id", "hash", "roles"}
          /\ usersLog[k].id \in Uuids
          /\ usersLog[k].roles \subseteq Roles
          /\ IsBcrypt(usersLog[k].hash)
    /\ \A token \in DOMAIN sessions :
          /\ FromFreshUuid(token)
          /\ DOMAIN sessions[token] = {"expiration", "roles"}
          /\ sessions[token].expiration \in Nat
          /\ sessions[token].roles \subseteq Roles
    /\ resp.result.kind = "Error" => resp.result.error \in ErrorNames
    /\ resp.result.kind = "UserId" =>
          DOMAIN resp.result = {"kind", "user_id"} /\ resp.result.user_id \in Uuids
    /\ resp.result.kind = "Uuids" =>
          \A k \in 1..Len(resp.result.ids) : resp.result.ids[k] \in Uuids
    /\ resp.result.kind = "Token" => FromFreshUuid(resp.result.token)

\* the users log holds a hashed password and a session was issued
C6_Witness ==
    /\ Len(usersLog) > 0
    /\ IsBcrypt(usersLog[1].hash)
    /\ usersLog[1].hash[2] \in UserPasswords
    /\ sessions # <<>>

----------------------------------------------------------------------------
(* Properties of the query controllers *)

\* the registers of an entity id stamped at or before t, over all day-logs
RegistersUntil(lines, entity, id, t) ==
    SelectSeq(LinesOf(lines, entity, id), LAMBDA r : r.timestamp <= t)

\* the state of an entity id at time t
StateAt(lines, entity, id, t) == FoldLines(RegistersUntil(lines, entity, id, t))

\* what a response shows of a state: the selected keys, never a Hash value
Shown(state, to_select) ==
    [k \in {j \in DOMAIN state : /\ state[j][1] # "Hash"
                                 /\ to_select.all \/ j \in to_select.keys} |->
        state[k]]

\* the response of the handler to a body that arrives now
Response(body) ==
    wql_handler(body, local_data, stateLock, encryption, encryptLock, dayLogs)

\* the latest register at or before the time of the read is of the day of
\* that time
LatestIsOfTheDay(q) ==
    LET past == RegistersUntil(dayLogs, q.entity, q.id.val, q.date.t)
    IN Len(past) > 0 /\ DayOf(past[Len(past)].timestamp) = DayOf(q.date.t)

\* C7: SELECT .. FROM e ID i WHEN AT t returns the state of (e, i) at the
\* latest register stamped at or before t, so a mutation logged after t on
\* the same day is not reflected.  Stated for the reads whose latest register
\* at or before t lies on the day of t.
C7_PointInTimeRead ==
    Idle =>
        \A q \in WhenQueries :
            (q.id.some /\ q.date.valid /\ LatestIsOfTheDay(q)) =>
                Response(q) = ResponseId(Shown(StateAt(dayLogs, q.entity, q.id.val,
                                                       q.date.t), q.to_select))

OtherMemory == {EmptyMap, local_data} \X {"free", "poisoned"}

\* C9: a temporal query neither reads local_data nor takes its lock: with
\* the same day-logs its response is the same whatever the store holds and
\* whatever the state of the lock is, and it does not wait for the lock.
C9_TemporalIgnoresMemory ==
    Idle =>
        \A q \in TemporalQueries :
            LET result == Response(q)
            IN /\ ~TakesLock(q)
               /\ \A m \in OtherMemory : wql_handler(q, m[1], m[2], encryption, encryptLock,
                                                       dayLogs) = result

\* a point-in-time read returned a state while the entity was evicted from
\* memory and the lock was poisoned
C9_Witness ==
    /\ resp.op = "SelectWhen"
    /\ resp.result.kind = "Id"
    /\ resp.result.state # EmptyMap
    /\ stateLock = "poisoned"
    /\ ~HasEntity(local_data, EntityName)

\* the latest state of an entity id in the day-logs
LatestState(entity, id) == FoldLines(LinesOf(dayLogs, entity, id))

\* every in-memory SELECT that acquires the lock now returns the latest
\* state of each live id
SelectsLatest ==
    \A ts \in ToSelects :
        /\ \A i \in Ids :
              LET result == Response(Select(EntityName, ts, Some(i), NoFunctions))
              IN IF HasId(local_data, EntityName, i)
                 THEN result = ResponseId(Shown(LatestState(EntityName, i), ts))
                 ELSE result.kind = "Error"
        /\ LET result == Response(Select(EntityName, ts, None, NoFunctions))
           IN IF HasEntity(local_data, EntityName)
              THEN result = [kind |-> "All",
                             states |-> [i \in DOMAIN local_data[EntityName] |->
                                            Shown(LatestState(EntityName, i), ts)]]
              ELSE result.kind = "Error"

\* the commit of an INSERT or an UPDATE SET leaves its id live, with the
\* register it appended as the latest of the id
CommitMakesLive ==
    (TxCommit /\ pending.kind \in {"Insert", "UpdateSet"}) =>
        /\ HasId(local_data', pending.entity, pending.id)
        /\ dayLogs'[Len(dayLogs')].entity_id = pending.id
        /\ dayLogs'[Len(dayLogs')].op = pending.kind

\* C10: once a mutation is appended and applied, every in-memory SELECT
\* that acquires the lock returns it: SELECT by id returns the latest state
\* of the id at the selected keys, SELECT without id returns one row per
\* live id holding the latest state of the id.
C10_CommittedIsVisible ==
    [][/\ CommitMakesLive
       /\ (Idle /\ stateLock = "free" => SelectsLatest)']_vars

\* a SELECT by id returned the state of an UPDATE SET
C10_Witness ==
    /\ resp.op = "Select"
    /\ resp.result.kind = "Id"
    /\ stateLock = "free"
    /\ Len(dayLogs) > 1
    /\ dayLogs[Len(dayLogs)].op = "UpdateSet"
    /\ resp.result.state = Shown(dayLogs[Len(dayLogs)].state, ToSelectAll)
    /\ resp.result.state # EmptyMap

----------------------------------------------------------------------------
(* Properties of the in-memory reads: SELECT ... IDS IN, the algebra, CHECK *)

\* r is the error e
IsError(r, e) == r.kind = "Error" /\ r.error = e

\* the keys the entity was declared with as encrypted
DeclaredEncrypted(entity) ==
    IF entity \in DOMAIN encryption THEN encryption[entity] ELSE {}

\* C11: CHECK {k: v, ...} FROM e ID i fails with CheckNonEncryptedKeys
\* listing exactly the supplied keys that are not declared encrypted for e
\* whenever at least one supplied key is not declared encrypted, for every
\* entity e; only when every supplied key is declared encrypted does it go
\* on to the verification.
C11_CheckNonEncryptedKeys ==
    Idle =>
        \A q \in CheckQueries :
            LET supplied == DOMAIN q.content
                not_declared == supplied \ DeclaredEncrypted(q.entity)
            IN IF not_declared # {}
               THEN Response(q) = CheckNonEncryptedKeys(not_declared)
               ELSE ~IsError(Response(q), "CheckNonEncryptedKeys")

\* the ids of the rows of a response, in the order of the rows
RowIds(result) == [k \in 1..Len(result.rows) |-> result.rows[k].id]

\* the ids of a request that are live, in the order of the request, at the
\* positions OFFSET and LIMIT select
RequestedRows(q) ==
    LET loc == get_limit_offset_count(q.functions)
        live == SelectSeq(q.ids, LAMBDA id : HasId(local_data, q.entity, id))
    IN SkipTakeSeq(live, loc.offset, loc.limit)

\* C12: SELECT ... FROM e IDS IN #{i1, ..., in} yields its rows in the
\* order in which the ids were given in the request, and OFFSET/LIMIT
\* select positions of that request order.
C12_RowsInRequestOrder ==
    Idle =>
        \A q \in SelectIdsQueries :
            (~q.functions.dedup.some /\ Response(q).kind # "Error")
                => RowIds(Response(q)) = RequestedRows(q)

\* the members of seq that OFFSET and LIMIT keep: the first offset are
\* skipped and at most limit of the rest are kept
KeptRows(seq, functions) ==
    LET offset == IF functions.offset.some THEN functions.offset.val ELSE 0
    IN {seq[k] : k \in {j \in 1..Len(seq) :
                            /\ j > offset
                            /\ functions.limit.some => j <= offset + functions.limit.val}}

\* the live ids a select walks, in the order it walks them: the order of
\* the ids for SELECT, the order of the request for SELECT ... IDS IN
WalkedIds(q) ==
    IF q.kind = "SelectIds"
    THEN SelectSeq(q.ids, LAMBDA id : HasId(local_data, q.entity, id))
    ELSE BTreeKeys(DOMAIN local_data[q.entity])

\* the ids of the rows of a response
ResultIds(result) ==
    IF result.kind \in {"OptionSelect", "OptionWithCount"}
    THEN {result.rows[k].id : k \in 1..Len(result.rows)}
    ELSE DOMAIN result.states

\* the value of the row of id at the key of DEDUP
DedupValue(q, id) == ValueAt(local_data[q.entity][id].state, q.functions.dedup.val)

\* the rows of result are those OFFSET and LIMIT keep, after DEDUP over
\* them alone
StagesInOrder(q, result) ==
    LET kept == KeptRows(WalkedIds(q), q.functions)
        ids == ResultIds(result)
    IN /\ ids \subseteq kept
       /\ q.functions.limit.some => Cardinality(ids) <= q.functions.limit.val
       /\ IF q.functions.dedup.some
          THEN /\ \A i \in kept : \E j \in ids : DedupValue(q, j) = DedupValue(q, i)
               /\ \A i, j \in ids : DedupValue(q, i) = DedupValue(q, j) => i = j
          ELSE ids = kept

\* the selects that run the algebra
AlgebraQueries == SelectAllQueries \cup SelectDedupQueries \cup SelectIdsQueries

----------------------------------------------------------------------------
(* Properties of the handlers under a poisoned lock *)

\* the response of put_user_session to body in this state
SessionResponse(body) ==
    put_user_session_controller(body, usersLog, sessions, sessionLock, now,
                                ExpirationTime, nextUuid).result

\* put_user_session reaches session_context.lock(): the body deserializes,
\* the user is found and the password verifies
ReachesSessionLock(body) ==
    /\ body.ok
    /\ find_user(usersLog, body.id).ok
    /\ BcryptVerify(body.user_password, find_user(usersLog, body.id).val.hash)

\* a handler reaches local_data.lock(): every select does, CHECK does
\* unless it has returned CheckNonEncryptedKeys
ReachesStateLock(q) ==
    q.kind = "CheckValue" =>
        DOMAIN q.content \subseteq DeclaredEncrypted(q.entity)

LockData == Error("LockData")

\* C14: whenever a handler fails to acquire one of the shared locks (state
\* map, encryption-key map, session table) because it is poisoned, the
\* request ends with the LockData error: for the select handlers, for CHECK
\* (the encryption-map lock and the state lock) and for put_user_session
\* (the session table lock).
C14_PoisonedLockIsLockData ==
    Idle =>
        /\ \A q \in ReadBodies :
               /\ (q.kind = "CheckValue" /\ LockFails(encryptLock))
                      => Response(q) = LockData
               /\ (LockFails(stateLock) /\ ReachesStateLock(q))
                      => Response(q) = LockData
        /\ \A body \in SessionBodies :
               (LockFails(sessionLock) /\ ReachesSessionLock(body))
                   => SessionResponse(body) = LockData

\* the part of C14 the select handlers and the state lock of CHECK meet
C14_StateLock ==
    Idle =>
        \A q \in ReadBodies :
            (LockFails(stateLock) /\ ~LockFails(encryptLock) /\ ReachesStateLock(q))
                => Response(q) = LockData

\* the part of C14 about the encryption-map lock of CHECK
C14_EncryptLock ==
    Idle =>
        \A q \in CheckQueries : LockFails(encryptLock) => Response(q) = LockData

\* the part of C14 about put_user_session
C14_SessionLock ==
    Idle =>
        \A body \in SessionBodies :
            (LockFails(sessionLock) /\ ReachesSessionLock(body))
                => SessionResponse(body) = LockData

----------------------------------------------------------------------------
(* Properties of the reads of an absent entity *)

\* C15: every in-memory read (select by id, by id set, select all, select
\* keys, CHECK) of an entity name that is absent from the state store,
\* never created or removed by EVICT of the whole entity, fails with
\* EntityNotCreated naming that entity, and no row is returned.
C15_AbsentEntity ==
    (Idle /\ ~LockFails(stateLock)) =>
        \A q \in ReadBodies :
            ~HasEntity(local_data, q.entity)
                => Response(q) = EntityNotCreated(q.entity)

\* a CHECK of an entity that was created, written to and evicted answered
\* EntityNotCreated
C15_Witness ==
    /\ resp.op = "CheckValue"
    /\ resp.result = EntityNotCreated(EntityName)
    /\ ~HasEntity(local_data, EntityName)
    /\ Len(dayLogs) > 0
    /\ ~LockFails(stateLock)

----------------------------------------------------------------------------
(* Properties of Types: to_hash, partial_cmp, hash *)

\* bcrypt refuses the text or the cost
BcryptRefuses(v, cost) ==
    \/ HashedText(v) = NulText
    \/ cost.some /\ cost.val \notin 4..31

\* the result is a Hash that is not the value hashed
IsNewHash(result, v) ==
    result.ok /\ Variant(result.val) = "Hash" /\ result.val # v

\* C16 as the claim states it: to_hash returns an error for a Hash and for
\* Nil, and a value of variant Hash for every other variant.
C16_AsStated ==
    resp.op = "to_hash" =>
        IF Variant(lhs) \in {"Hash", "Nil"}
        THEN ~resp.result.ok
        ELSE IsNewHash(resp.result, lhs)

\* C16: to_hash(v, cost) returns an error for v of variant Hash and for
\* Nil; for every other variant it returns a value of variant Hash, never
\* the input value itself and never another variant, unless bcrypt refuses
\* the text (a NUL byte) or the cost (outside 4..31), and then it returns
\* the error of bcrypt.
C16_ToHash ==
    resp.op = "to_hash" =>
        IF Variant(lhs) \in {"Hash", "Nil"}
        THEN ~resp.result.ok
        ELSE IF BcryptRefuses(lhs, resp.cost)
             THEN resp.result = Err("bcrypt")
             ELSE IsNewHash(resp.result, lhs)

\* to_hash of a String returned a Hash
C16_Witness ==
    /\ resp.op = "to_hash"
    /\ Variant(lhs) = "String"
    /\ resp.result.ok
    /\ Variant(resp.result.val) = "Hash"

\* the two values are an Integer and a Float
IntegerWithFloat(a, b) == {Variant(a), Variant(b)} = {"Integer", "Float"}

\* C17: the comparison of two values of different variants is incomparable
\* (no ordering is returned, never Less, Greater or Equal) for every pair
\* of variants except Integer with Float, for which an ordering is
\* returned.
C17_DifferentVariants ==
    (resp.op = "partial_cmp" /\ Variant(lhs) # Variant(rhs)) =>
        IF IntegerWithFloat(lhs, rhs)
        THEN resp.result.some
        ELSE resp.result = None

\* a String was compared with a Precise and no ordering was returned
C17_Witness ==
    /\ resp.op = "partial_cmp"
    /\ Variant(lhs) = "String"
    /\ Variant(rhs) = "Precise"
    /\ resp.result = None

\* the like-variant pairs that are ordered
OrderedPair(a, b) ==
    \/ /\ Variant(a) = Variant(b)
       /\ Variant(a) \in {"Integer", "Float", "Char", "String", "Precise",
                          "Uuid", "Boolean", "Vector"}
    \/ IntegerWithFloat(a, b)

\* C18: within each like-variant pair (Integer/Integer, Float/Float,
\* Integer/Float, Char, String, Precise, Uuid, Boolean, Vector) the
\* comparison is a total order consistent with equality: compare(a, a) is
\* Equal, compare(a, b) is Equal whenever a equals b, and compare(a, b) =
\* Less implies compare(b, a) = Greater.
C18_OrderConsistentWithEquality ==
    (resp.op = "partial_cmp" /\ OrderedPair(lhs, rhs)) =>
        /\ resp.result.some
        /\ types_eq(lhs, rhs) => resp.result = Some("Equal")
        /\ resp.result = Some("Less") => partial_cmp(rhs, lhs) = Some("Greater")

\* the part of C18 that holds: the pairs without a Float
C18_WithoutFloat ==
    (/\ resp.op = "partial_cmp"
     /\ OrderedPair(lhs, rhs)
     /\ "Float" \notin {Variant(lhs), Variant(rhs)}) =>
        /\ resp.result.some
        /\ types_eq(lhs, rhs) => resp.result = Some("Equal")
        /\ resp.result = Some("Less") => partial_cmp(rhs, lhs) = Some("Greater")

\* C19: hashing is consistent with equality: any two equal values feed the
\* same sequence into the hasher; the hash of a Map does not depend on the
\* order in which its entries are iterated, and Nil hashes as the empty
\* string.
C19_HashConsistentWithEquality ==
    resp.op = "hash" =>
        /\ types_eq(lhs, rhs) => resp.left = resp.right
        /\ lhs = Nil => resp.left = hash(String(""), <<>>)

\* the part of C19 about a Map: two hashes of one Map write the same
C19_MapOrder ==
    (resp.op = "hash" /\ Variant(lhs) = "Map" /\ lhs = rhs)
        => resp.left = resp.right

\* the part of C19 that holds: the values that are neither a Map nor a Float
C19_Scalars ==
    (resp.op = "hash" /\ {Variant(lhs), Variant(rhs)} \cap {"Map", "Float"} = {}) =>
        /\ types_eq(lhs, rhs) => resp.left = resp.right
        /\ lhs = Nil => resp.left = hash(String(""), <<>>)

----------------------------------------------------------------------------
(* Properties of the lock of local_data during a read *)

\* a read has left the block that locks local_data and has not answered
Transforming == reading.kind = "Cloned"

\* the answer of the handler of body on the store and the day-logs of the
\* instant of the clone
AnswerAtClone(r) ==
    wql_handler(r.body, r.clone, "free", r.encrypts, encryptLock, r.lines)

\* the step in which a read that has cloned its data answers
AnswersFromClone == Transforming /\ reading' = NoRead

\* C20: every in-memory read holds the state lock only while it looks up
\* and clones the data it needs: the lock is released before the key
\* projection, OFFSET/LIMIT, DEDUP and any await on the actor, so that a
\* writer is not blocked by a reader that is transforming or awaiting, and
\* the result of the read equals the store content at the instant of the
\* clone.
C20_LockOnlyWhileCloning ==
    [][/\ Transforming' => stateLock' # "read"
       /\ (Transforming' /\ pending' = NoTx) => stateLock' = "free"
       /\ AnswersFromClone => resp'.result = AnswerAtClone(reading)]_vars

\* a writer has committed while a read was transforming its clone: the
\* store is no longer what the read cloned
C20_Witness ==
    /\ Transforming
    /\ HasId(reading.clone, EntityName, 1)
    /\ reading.clone # local_data
    /\ stateLock = "free"

----------------------------------------------------------------------------
(* Properties of CHECK on an id without a registry *)

\* the CHECK requests of the model, on the entity the transactions create and
\* on a name they never create
AllCheckQueries == CheckQueries \cup {q \in OtherEntityQueries : q.kind = "CheckValue"}

\* C21: CHECK always ends with a response: for every entity e and id i,
\* including an id that was never inserted into e or that was deleted or
\* evicted, check_value_controller returns either a result or an Error value
\* and never aborts the handler.
C21_CheckAlwaysResponds ==
    Idle => \A q \in AllCheckQueries : Response(q) # Panic

----------------------------------------------------------------------------
(* Properties of the query endpoint as a whole *)

\* the step in which wql_handler answers a statement
QueryStep == Idle /\ resp'.op \in {body.kind : body \in FrameBodies}

NonSelectKinds ==
    {"CreateEntity", "Insert", "UpdateSet", "UpdateContent", "MatchUpdate",
     "Delete", "Evict"}
UnparsableKinds == {body.kind : body \in UnparsableBodies}

\* the handler answered with rows
ReturnsRows(result) == result.kind \notin {"Error", "Panic"}

\* the step executed nothing: the store, the encrypted keys and the day-logs
\* are as before
NotExecuted == UNCHANGED <<local_data, encryption, dayLogs, pending>>

\* C23: a statement that parses to a transactional node (CREATE ENTITY,
\* INSERT, UPDATE SET, UPDATE CONTENT, MATCH UPDATE, DELETE, EVICT) is
\* rejected by the query endpoint with NonSelectQuery and is not executed;
\* text that does not parse (including empty or whitespace-only text) is
\* rejected with a query-format error; neither case returns rows.
C23_NonSelectRejected ==
    [][/\ (Idle /\ resp'.op \in NonSelectKinds) =>
              /\ resp'.result = Error("NonSelectQuery")
              /\ NotExecuted
       /\ (Idle /\ resp'.op \in UnparsableKinds) =>
              /\ resp'.result = Error("QueryFormat")
              /\ NotExecuted
       /\ (Idle /\ resp'.op \in NonSelectKinds \cup UnparsableKinds) =>
              ~ReturnsRows(resp'.result)]_vars

\* a DELETE of an id the store holds was sent to the query endpoint and
\* answered: executed, it would have removed the id
C23_Witness ==
    /\ resp.op = "Delete"
    /\ resp.result.kind = "Error"
    /\ HasId(local_data, EntityName, 1)
    /\ stateLock = "free"

----------------------------------------------------------------------------
(* Properties of the session table *)

\* the step in which put_user_session answers with a token
SessionGranted ==
    Idle /\ resp'.op = "put_user_session" /\ resp'.result.kind = "Token"

----------------------------------------------------------------------------
(* Properties of SELECT by id and by id set on ids without a registry *)

\* the SELECTs by a single id, of all keys and of given keys, on the entity
\* the transactions create and on a name they never create
SingleIdQueries ==
    SelectIdQueries
        \cup {q \in OtherEntityQueries : q.kind = "Select" /\ q.id.some}

\* C25: SELECT by a single id on an existing entity whose store has no entry
\* for that id (never inserted, deleted or evicted) fails with
\* IdNotCreatedForEntity naming the entity and the id, for both the all-keys
\* and the key-projection form; when the entity is also absent,
\* EntityNotCreated is reported instead (the entity check comes first).
C25_IdNotCreated ==
    (Idle /\ ~LockFails(stateLock)) =>
        \A q \in SingleIdQueries :
            /\ ~HasEntity(local_data, q.entity) =>
                   Response(q) = EntityNotCreated(q.entity)
            /\ (HasEntity(local_data, q.entity)
                    /\ ~HasId(local_data, q.entity, q.id.val)) =>
                   Response(q) = IdNotCreatedForEntity(q.entity, q.id.val)

\* id 1 was inserted and then deleted, the entity is still there, and a
\* SELECT of its keys by that id has been answered
C25_Witness ==
    /\ resp.op = "Select"
    /\ resp.result = IdNotCreatedForEntity(EntityName, 1)
    /\ HasId(local_data, EntityName, 2)
    /\ \E k \in DOMAIN dayLogs :
           dayLogs[k].op = "Delete" /\ dayLogs[k].entity_id = 1

\* the ids a request names
NamedIds(q) == {q.ids[k] : k \in 1..Len(q.ids)}

\* C26: SELECT by id set on an existing entity never fails because of an
\* unknown id: ids that have no entry in the store are silently left out
\* before OFFSET and LIMIT are applied (so OFFSET/LIMIT count only existing
\* ids), the result holds at most one row per distinct id even when the
\* request repeats an id, and every returned id is one that was requested.
C26_UnknownIdsLeftOut ==
    (Idle /\ ~LockFails(stateLock)) =>
        \A q \in SelectIdsQueries :
            HasEntity(local_data, q.entity) =>
                LET result == Response(q)
                    kept == KeptRows(WalkedIds(q), q.functions)
                IN /\ result.kind \in {"OptionSelect", "OptionWithCount"}
                   /\ \A j, k \in 1..Len(result.rows) :
                          result.rows[j].id = result.rows[k].id => j = k
                   /\ \A k \in 1..Len(result.rows) :
                          /\ result.rows[k].id \in NamedIds(q)
                          /\ HasId(local_data, q.entity, result.rows[k].id)
                   /\ ResultIds(result) \subseteq kept
                   /\ ~q.functions.dedup.some => ResultIds(result) = kept

\* a request that names id 1 twice and then id 2, with LIMIT 1, was answered
\* while the store holds id 2 only: the row of id 2 is the one returned
C26_Witness ==
    /\ resp.op = "SelectIds"
    /\ HasId(local_data, EntityName, 2)
    /\ ~HasId(local_data, EntityName, 1)
    /\ \E q \in SelectIdsQueries :
           /\ q.ids = <<1, 1, 2>>
           /\ q.functions.limit = Some(1)
           /\ ~q.functions.offset.some
           /\ resp.result = Response(q)
           /\ RowIds(resp.result) = <<2>>

----------------------------------------------------------------------------
(* Properties of the order of the checks in create_user and delete_users *)

\* C27: in create_user and delete_users the request body is validated before
\* the admin credentials: a body that does not deserialize yields
\* AuthenticationBadRequestBody regardless of the credentials it carries;
\* with valid credentials, a failure to hash the password or to write the
\* users log yields FailedToCreateUser (resp. FailedToDeleteUsers) and no
\* user id is returned as created.
C27_BodyBeforeCredentials ==
    [][/\ \A body \in CreateUserBodies, io_ok \in BOOLEAN :
            (resp'.op = "create_user" /\ CreateUserReq(body, io_ok)) =>
                /\ ~body.ok =>
                       resp'.result = Error("AuthenticationBadRequestBody")
                /\ (/\ body.ok /\ AdminVerifies(body)
                    /\ \/ ~BcryptHash(body.user_info.user_password, AdminCost).ok
                       \/ ~io_ok) =>
                       /\ resp'.result = Error("FailedToCreateUser")
                       /\ usersLog' = usersLog
       /\ \A body \in DeleteUsersBodies, io_ok \in BOOLEAN :
            (resp'.op = "delete_users" /\ DeleteUsersReq(body, io_ok)) =>
                /\ ~body.ok =>
                       resp'.result = Error("AuthenticationBadRequestBody")
                /\ (body.ok /\ AdminVerifies(body) /\ ~io_ok) =>
                       resp'.result = Error("FailedToDeleteUsers")]_vars

\* create_user has failed for a verified admin after an earlier user was
\* created: the users log holds the earlier user only
C27_Witness ==
    /\ resp.op = "create_user"
    /\ resp.result = Error("FailedToCreateUser")
    /\ Len(usersLog) = 1
    /\ nextUuid = 3

----------------------------------------------------------------------------
(* Properties of the dates of the temporal queries *)

\* the dates a temporal query carries: AT, or START and END
DatesOf(q) ==
    IF q.kind = "SelectWhenRange" THEN <<q.start_date, q.end_date>> ELSE <<q.date>>

\* the name of the day-log of the UTC day of t
DayLogName(t) == <<"data", t \div SecondsPerDay>>

----------------------------------------------------------------------------
(* Properties of ID: from_str and to_string *)

\* the text is what ID::from_str reads as a uuid, as an unsigned integer
ReadsAsUuid(text) == Uuid_parse_str(text).ok
ReadsAsNumber(text) == parse_usize(text).ok

\* C29: parsing an id from text classifies it with the priority uuid, then
\* unsigned integer, then string, rejects only the empty text, and
\* round-trips with printing: ID::from_str(id.to_string()) = id for every
\* Uuid id and every Number id, and for a String id exactly when its text is
\* non-empty and parses neither as a uuid nor as an unsigned integer.
C29_IdRoundTrip ==
    resp.op = "ID::from_str" =>
        LET text == resp.text
            result == resp.result
        IN /\ text = ID_to_string(idValue)
           /\ result.ok <=> text # <<>>
           /\ result.ok =>
                  result.val[1] = IF ReadsAsUuid(text) THEN "Uuid"
                                  ELSE IF ReadsAsNumber(text) THEN "Number"
                                  ELSE "String"
           /\ idValue[1] \in {"Uuid", "Number"} => result = Ok(idValue)
           /\ idValue[1] = "String" =>
                  (result = Ok(idValue)
                      <=> /\ text # <<>>
                          /\ ~ReadsAsUuid(text)
                          /\ ~ReadsAsNumber(text))

\* the String id "+1" was printed and parsed back as the Number 1
C29_Witness ==
    /\ resp.op = "ID::from_str"
    /\ idValue = IdString(<<"+", "1">>)
    /\ resp.result = Ok(IdNumber(1))

----------------------------------------------------------------------------
(* Properties of Types::default_values *)

\* the variants whose default is a constant of the source
FixedDefaults ==
    {"Char", "Integer", "String", "Float", "Boolean", "Vector", "Map", "Hash",
     "Precise", "Nil"}

\* C30: default_values returns a value of the variant of its argument that
\* depends only on that variant: two calls on values of the same variant, at
\* any two times, return equal results, for every variant including Uuid and
\* DateTime.
C30_DefaultIsFixed ==
    resp.op = "default_values" =>
        /\ Variant(resp.left) = Variant(lhs)
        /\ Variant(resp.right) = Variant(rhs)
        /\ Variant(lhs) = Variant(rhs) => resp.left = resp.right

\* the same for the variants other than Uuid and DateTime
C30_FixedVariants ==
    resp.op = "default_values" =>
        /\ Variant(resp.left) = Variant(lhs)
        /\ Variant(resp.right) = Variant(rhs)
        /\ Variant(lhs) = Variant(rhs) /\ Variant(lhs) \in FixedDefaults
               => resp.left = resp.right


====
